---- MODULE Spec2Model ----
(***************************************************************************)
(* Model of gio/gdbusnamewatching.c (the bus-name watcher) and of          *)
(* gio/gapplicationimpl-dbus.c (the D-Bus backend of GApplication).        *)
(*                                                                         *)
(* Every handler of the C code is one atomic action.  A handler is written *)
(* as a function from the watcher state s (a record of the variables the   *)
(* handlers touch) to the state it leaves, so that the calls it makes      *)
(* (call_vanished_handler, do_call, client_unref, ...) compose in program  *)
(* order.                                                                  *)
(*                                                                         *)
(* What the code reads from its surroundings is an input of the action:    *)
(* the thread-default main context at the time a handler runs (cur), the   *)
(* result of g_bus_get, the replies of the bus daemon.  The context a      *)
(* handler runs on is GDBus's choice (dispatcher), fixed for a run.        *)
(* GLib's argument checks (g_return_if_fail) are compiled in, as in a      *)
(* default build.                                                          *)
(***************************************************************************)
EXTENDS Integers, Sequences, FiniteSets, TLC

\* ------------------------------------------------------------------ bounds
MaxClients == 2    \* Client structs that can exist at once (registry specification)
MaxChanges == 2    \* ownership changes of the watched name on the bus
MaxProcs == 2      \* processes that register the application on one session bus
IdBits == 2        \* width of next_global_id in the model (a guint in the code)
MaxCalls == 2      \* method calls the remote instances send to the primary
MaxPrints == 2     \* messages printed through one command-line channel

\* --------------------------------------------------------------- constants
PREVIOUS_CALL_NONE == "PREVIOUS_CALL_NONE"
PREVIOUS_CALL_APPEARED == "PREVIOUS_CALL_APPEARED"
PREVIOUS_CALL_VANISHED == "PREVIOUS_CALL_VANISHED"
CALL_TYPE_NAME_APPEARED == "CALL_TYPE_NAME_APPEARED"
CALL_TYPE_NAME_VANISHED == "CALL_TYPE_NAME_VANISHED"

NULL == "NULL"
TheConnection == "connection"          \* the one GDBusConnection of the process
Contexts == {"default", "pushed"}      \* main contexts; "default" is the NULL thread-default
Owners == {":1.5", ":1.6"}             \* unique names that can own the watched name
NoOwner == ""                          \* the empty owner of NameOwnerChanged
IdModulus == 2 ^ IdBits
Ids == 0 .. (IdModulus - 1)
Clients == 1 .. MaxClients
NoClient == 0                          \* g_hash_table_lookup found nothing

G_APPLICATION_IS_SERVICE == "G_APPLICATION_IS_SERVICE"
G_APPLICATION_IS_LAUNCHER == "G_APPLICATION_IS_LAUNCHER"
Flags == SUBSET {G_APPLICATION_IS_SERVICE, G_APPLICATION_IS_LAUNCHER}
Procs == 1 .. MaxProcs
NoProc == 0                            \* the bus daemon: the name has no owner
AppIds == {<<"a", ".", "b">>}        \* application ids, as strings of characters
NoString == <<>>                       \* a NULL gchar *

VARIABLES
  client,            \* Client structs, by slot
  next_global_id,    \* static guint next_global_id
  map_id_to_client,  \* static GHashTable *map_id_to_client (NoClient: no entry)
  idle,              \* per main context: the queued idle sources (CallHandlerData)
  pending,           \* per client: the asynchronous call the bus has not answered yet
  inbox,             \* per client: replies and signals received, in the bus's order
  closed,            \* the connection was closed
  bus_owner,         \* the bus daemon's owner of the watched name
  changes,           \* ownership changes so far
  calls,             \* per client: the handler invocations delivered, in order (history)
  decided,           \* per client: deliveries decided by do_call so far (history)
  logged,            \* the message g_warning or g_return_if_fail logged last (history)
  dispatcher,        \* where GDBus runs the handlers, see HandlerContext
  impl,              \* per process: its GApplicationImpl
  reg,               \* per process: where its g_application_impl_register stands
  ret,               \* per process: what its last g_application_impl_register returned
  connected,         \* per process: its session bus connection exists and is open
  exported,          \* per process: the object paths registered on its connection
  bus_names,         \* the bus daemon: the owner of each application name
  wire,              \* per instance: the messages the bus has to deliver to it, in order
  sent,              \* per instance: the method calls its connection sent so far
  cmdlines,          \* per instance: its GDBusCommandLine objects not finalized yet
  round,             \* per instance: where its g_application_impl_command_line stands
  trace,             \* per instance: what its application saw and did, in order (history)
  lock,              \* G_LOCK_DEFINE_STATIC (lock): the thread that holds it
  thread             \* per thread: where its call of the watcher API stands

watcher_vars == <<client, next_global_id, map_id_to_client, idle, pending, inbox,
                  closed, bus_owner, changes, calls, decided, logged, dispatcher>>
app_vars == <<impl, reg, ret, connected, exported, bus_names>>
cmd_vars == <<wire, sent, cmdlines, round, trace>>
lock_vars == <<lock, thread>>
vars == <<client, next_global_id, map_id_to_client, idle, pending, inbox,
          closed, bus_owner, changes, calls, decided, logged, dispatcher,
          impl, reg, ret, connected, exported, bus_names,
          wire, sent, cmdlines, round, trace, lock, thread>>

\* g_new0 (Client, 1) before the fields are set; also what a freed slot holds
NewClient(status) ==
  [status |-> status, ref_count |-> 0, id |-> 0, auto_start |-> FALSE,
   name_owner |-> NULL, name_appeared_handler |-> FALSE,
   name_vanished_handler |-> FALSE, main_context |-> "default",
   connection |-> NULL, disconnected_signal_handler_id |-> 0,
   name_owner_changed_subscription_id |-> 0,
   previous_call |-> PREVIOUS_CALL_NONE, cancelled |-> FALSE, initialized |-> FALSE]

\* the watcher state the handlers work on
Cur ==
  [c |-> client, idle |-> idle, pending |-> pending, inbox |-> inbox,
   calls |-> calls, decided |-> decided]

Commit(s) ==
  /\ client' = s.c
  /\ idle' = s.idle
  /\ pending' = s.pending
  /\ inbox' = s.inbox
  /\ calls' = s.calls
  /\ decided' = s.decided

IsSignal(m) == m.type = "NameOwnerChanged"

RECURSIVE WithoutSignals(_)
WithoutSignals(q) ==
  IF q = <<>> THEN <<>>
  ELSE IF IsSignal(Head(q)) THEN WithoutSignals(Tail(q))
  ELSE <<Head(q)>> \o WithoutSignals(Tail(q))

\* g_dbus_connection_signal_unsubscribe: signals received and not yet dispatched
\* are not delivered to a subscription that is gone
signal_unsubscribe(s, w) ==
  [s EXCEPT !.inbox[w] = WithoutSignals(@)]

client_ref(s, w) ==
  [s EXCEPT !.c[w].ref_count = @ + 1]

\* mutant: the Client is freed whatever the count
client_unref_whatever_count(s, w) ==
  [signal_unsubscribe(s, w) EXCEPT !.c[w] = NewClient("freed")]

client_unref(s, w) ==
  IF s.c[w].ref_count - 1 = 0
  THEN LET s1 == IF s.c[w].connection /= NULL
                    /\ s.c[w].name_owner_changed_subscription_id > 0
                 THEN signal_unsubscribe(s, w) ELSE s
       IN  [s1 EXCEPT !.c[w] = NewClient("freed")]
  ELSE [s EXCEPT !.c[w].ref_count = @ - 1]

\* ------------------------------------------------------- callback delivery
\* One delivered invocation, as the user's handler sees it: call_type, connection
\* and name_owner are the handler's arguments; the rest is history: the context
\* the invocation ran on, the route it took, the number and the context of the
\* do_call that decided it, whether the watcher was cancelled then, and the
\* watcher's captured context and cancelled flag when the handler was invoked.
Invocation(s, w, connection, name_owner, call_type, h) ==
  [call_type |-> call_type, connection |-> connection, name_owner |-> name_owner,
   ctx |-> h.ctx, via |-> h.via, seq |-> h.seq, decided_on |-> h.decided_on,
   decided_cancelled |-> h.decided_cancelled,
   main_context |-> s.c[w].main_context, cancelled |-> s.c[w].cancelled]

actually_do_call(s, w, connection, name_owner, call_type, h) ==
  IF call_type = CALL_TYPE_NAME_APPEARED
  THEN IF s.c[w].name_appeared_handler
       THEN [s EXCEPT !.calls[w] =
               Append(@, Invocation(s, w, connection, name_owner, call_type, h))]
       ELSE s
  ELSE IF s.c[w].name_vanished_handler
       THEN [s EXCEPT !.calls[w] =
               Append(@, Invocation(s, w, connection, name_owner, call_type, h))]
       ELSE s

\* the idle source is attached to client->main_context; data holds a reference
\* on the client and snapshots of connection and name_owner
\* mutant: the idle source is attached to the global default context
schedule_call_in_idle_default_context(s, w, call_type, h) ==
  LET s1 == client_ref(s, w)
      data == [client |-> w,
               connection |-> s.c[w].connection,
               name_owner |-> s.c[w].name_owner,
               call_type |-> call_type,
               seq |-> h.seq, decided_on |-> h.decided_on,
               decided_cancelled |-> h.decided_cancelled]
  IN  [s1 EXCEPT !.idle["default"] = Append(@, data)]

\* mutant: the idle source is dispatched before the sources queued earlier
schedule_call_in_idle_first(s, w, call_type, h) ==
  LET s1 == client_ref(s, w)
      data == [client |-> w,
               connection |-> s.c[w].connection,
               name_owner |-> s.c[w].name_owner,
               call_type |-> call_type,
               seq |-> h.seq, decided_on |-> h.decided_on,
               decided_cancelled |-> h.decided_cancelled]
  IN  [s1 EXCEPT !.idle[s.c[w].main_context] = <<data>> \o @]

schedule_call_in_idle(s, w, call_type, h) ==
  LET s1 == client_ref(s, w)
      data == [client |-> w,
               connection |-> s.c[w].connection,
               name_owner |-> s.c[w].name_owner,
               call_type |-> call_type,
               seq |-> h.seq, decided_on |-> h.decided_on,
               decided_cancelled |-> h.decided_cancelled]
  IN  [s1 EXCEPT !.idle[s.c[w].main_context] = Append(@, data)]

\* cur: g_main_context_get_thread_default () of the running thread
do_call(s, w, call_type, cur) ==
  LET s1 == [s EXCEPT !.decided[w] = @ + 1]
      h == [ctx |-> cur, via |-> "inline", seq |-> s1.decided[w], decided_on |-> cur,
            decided_cancelled |-> s.c[w].cancelled]
  IN  IF cur /= s.c[w].main_context
      THEN schedule_call_in_idle(s1, w, call_type, h)
      ELSE actually_do_call(s1, w, s.c[w].connection, s.c[w].name_owner, call_type, h)

\* mutant: the cancelled flag is not consulted
call_appeared_handler_ignores_cancelled(s, w, cur) ==
  IF s.c[w].previous_call /= PREVIOUS_CALL_APPEARED
  THEN LET s1 == [s EXCEPT !.c[w].previous_call = PREVIOUS_CALL_APPEARED]
       IN  IF s1.c[w].name_appeared_handler
           THEN do_call(s1, w, CALL_TYPE_NAME_APPEARED, cur)
           ELSE s1
  ELSE s

\* mutant: previous_call is recorded only when the handler is called
call_appeared_handler_cancelled_first(s, w, cur) ==
  IF s.c[w].previous_call /= PREVIOUS_CALL_APPEARED
     /\ ~s.c[w].cancelled /\ s.c[w].name_appeared_handler
  THEN do_call([s EXCEPT !.c[w].previous_call = PREVIOUS_CALL_APPEARED],
               w, CALL_TYPE_NAME_APPEARED, cur)
  ELSE s

call_appeared_handler(s, w, cur) ==
  IF s.c[w].previous_call /= PREVIOUS_CALL_APPEARED
  THEN LET s1 == [s EXCEPT !.c[w].previous_call = PREVIOUS_CALL_APPEARED]
       IN  IF ~s1.c[w].cancelled /\ s1.c[w].name_appeared_handler
           THEN do_call(s1, w, CALL_TYPE_NAME_APPEARED, cur)
           ELSE s1
  ELSE s

\* mutant: previous_call is not consulted
call_vanished_handler_unconditional(s, w, ignore_cancelled, cur) ==
  LET s1 == [s EXCEPT !.c[w].previous_call = PREVIOUS_CALL_VANISHED]
  IN  IF (~s1.c[w].cancelled \/ ignore_cancelled) /\ s1.c[w].name_vanished_handler
      THEN do_call(s1, w, CALL_TYPE_NAME_VANISHED, cur)
      ELSE s1

call_vanished_handler(s, w, ignore_cancelled, cur) ==
  IF s.c[w].previous_call /= PREVIOUS_CALL_VANISHED
  THEN LET s1 == [s EXCEPT !.c[w].previous_call = PREVIOUS_CALL_VANISHED]
       IN  IF (~s1.c[w].cancelled \/ ignore_cancelled) /\ s1.c[w].name_vanished_handler
           THEN do_call(s1, w, CALL_TYPE_NAME_VANISHED, cur)
           ELSE s1
  ELSE s

\* call_in_idle_cb, then the source's destroy notify call_handler_data_free
call_handler_data_free(s, data) ==
  client_unref(s, data.client)

\* mutant: the handler is given the fields the Client has when the source fires
call_in_idle_cb_live_fields(s, ctx) ==
  LET data == Head(s.idle[ctx])
      h == [ctx |-> ctx, via |-> "idle", seq |-> data.seq, decided_on |-> data.decided_on,
            decided_cancelled |-> data.decided_cancelled]
      s1 == [s EXCEPT !.idle[ctx] = Tail(@)]
      s2 == actually_do_call(s1, data.client, s.c[data.client].connection,
                             s.c[data.client].name_owner, data.call_type, h)
  IN  call_handler_data_free(s2, data)

call_in_idle_cb(s, ctx) ==
  LET data == Head(s.idle[ctx])
      h == [ctx |-> ctx, via |-> "idle", seq |-> data.seq, decided_on |-> data.decided_on,
            decided_cancelled |-> data.decided_cancelled]
      s1 == [s EXCEPT !.idle[ctx] = Tail(@)]
      s2 == actually_do_call(s1, data.client, data.connection, data.name_owner,
                             data.call_type, h)
  IN  call_handler_data_free(s2, data)

\* ------------------------------------------------------------ bus traffic
\* a method reply: ok is FALSE for an error reply, value is the (s) or (u) of the body
Result(ok, value) == [ok |-> ok, value |-> value]
Failed == Result(FALSE, NULL)   \* g_dbus_connection_call_finish returned NULL
Reply(method, result) == [type |-> "reply", method |-> method, result |-> result]
\* a NameOwnerChanged signal of the bus daemon about the watched name
Signal(old_owner, new_owner) ==
  [type |-> "NameOwnerChanged", match |-> TRUE, name_ok |-> TRUE,
   old_owner |-> old_owner, new_owner |-> new_owner]

\* g_dbus_connection_call (connection, ..., callback, user_data).  With a NULL
\* connection the argument check returns at once: no call is made and the
\* callback never runs.  On a closed connection the call fails asynchronously.
connection_call(s, w, method, is_closed) ==
  IF s.c[w].connection = NULL THEN s
  ELSE IF is_closed THEN [s EXCEPT !.inbox[w] = Append(@, Reply(method, Failed))]
  ELSE [s EXCEPT !.pending[w] = method]

\* mutant: the reply is used although the connection is gone
call_finish_without_check(s, w, result) == result

\* g_dbus_connection_call_finish (client->connection, res, NULL): NULL when the
\* connection argument is NULL (argument check) or the call failed
call_finish(s, w, result) ==
  IF s.c[w].connection = NULL THEN Failed ELSE result

\* mutant: the handler tears the connection down and forgets the vanished call
on_connection_disconnected_silent(s, w, cur) ==
  LET s1 == IF s.c[w].name_owner_changed_subscription_id > 0
            THEN signal_unsubscribe(s, w) ELSE s
  IN  [s1 EXCEPT !.c[w].disconnected_signal_handler_id = 0,
                 !.c[w].name_owner_changed_subscription_id = 0,
                 !.c[w].connection = NULL]

on_connection_disconnected(s, w, cur) ==
  LET s1 == IF s.c[w].name_owner_changed_subscription_id > 0
            THEN signal_unsubscribe(s, w) ELSE s
      s2 == [s1 EXCEPT !.c[w].disconnected_signal_handler_id = 0,
                       !.c[w].name_owner_changed_subscription_id = 0,
                       !.c[w].connection = NULL]
  IN  call_vanished_handler(s2, w, FALSE, cur)

\* sig.match: sender, path and interface are those of the bus daemon; sig.name_ok:
\* the signal is about client->name
\* goto out
out(s, w) == s

\* mutant: the owner that goes is not reported
owner_changed_appeared_only(s, w, sig, cur) ==
  IF sig.new_owner /= NoOwner
  THEN call_appeared_handler([s EXCEPT !.c[w].name_owner = sig.new_owner], w, cur)
  ELSE s

\* on_name_owner_changed from the look at old_owner on
owner_changed(s, w, sig, cur) ==
  LET s1 == IF sig.old_owner /= NoOwner /\ s.c[w].name_owner /= NULL
            THEN call_vanished_handler([s EXCEPT !.c[w].name_owner = NULL],
                                       w, FALSE, cur)
            ELSE s
  IN  IF sig.new_owner /= NoOwner
      THEN call_appeared_handler([s1 EXCEPT !.c[w].name_owner = sig.new_owner],
                                 w, cur)
      ELSE s1

\* mutant: every signal counts
on_name_owner_changed_unchecked(s, w, sig, cur) == owner_changed(s, w, sig, cur)

on_name_owner_changed(s, w, sig, cur) ==
  IF ~s.c[w].initialized THEN out(s, w)
  ELSE IF ~sig.match THEN out(s, w)
  ELSE IF ~sig.name_ok THEN out(s, w)
  ELSE owner_changed(s, w, sig, cur)

get_name_owner_cb(s, w, res, cur) ==
  LET result == call_finish(s, w, res)
      s1 == IF result.ok
            THEN call_appeared_handler([s EXCEPT !.c[w].name_owner = result.value],
                                       w, cur)
            ELSE call_vanished_handler(s, w, FALSE, cur)
      s2 == [s1 EXCEPT !.c[w].initialized = TRUE]
  IN  client_unref(s2, w)

invoke_get_name_owner(s, w, is_closed) ==
  connection_call(client_ref(s, w), w, "GetNameOwner", is_closed)

\* mutant: the owner is asked whatever the reply code
start_service_by_name_cb_always_queries(s, w, res, cur, is_closed) ==
  client_unref(invoke_get_name_owner(s, w, is_closed), w)

start_service_by_name_cb(s, w, res, cur, is_closed) ==
  LET result == call_finish(s, w, res)
      s1 == IF result.ok
            THEN IF result.value = 1 THEN invoke_get_name_owner(s, w, is_closed)
                 ELSE IF result.value = 2 THEN invoke_get_name_owner(s, w, is_closed)
                 ELSE [call_vanished_handler(s, w, FALSE, cur)
                         EXCEPT !.c[w].initialized = TRUE]
            ELSE invoke_get_name_owner(s, w, is_closed)
  IN  client_unref(s1, w)

has_connection(s, w, is_closed) ==
  LET s1 == [s EXCEPT !.c[w].disconnected_signal_handler_id = 1,
                      !.c[w].name_owner_changed_subscription_id = 1]
  IN  IF s1.c[w].auto_start
      THEN connection_call(client_ref(s1, w), w, "StartServiceByName", is_closed)
      ELSE invoke_get_name_owner(s1, w, is_closed)

\* mutant: a failed bus acquisition is not reported
connection_get_cb_silent(s, w, connection, cur, is_closed) ==
  LET s1 == [s EXCEPT !.c[w].connection = connection]
      s2 == IF connection = NULL THEN s1 ELSE has_connection(s1, w, is_closed)
  IN  client_unref(s2, w)

\* mutant: the failure is reported and the watcher set up all the same
connection_get_cb_falls_through(s, w, connection, cur, is_closed) ==
  LET s1 == [s EXCEPT !.c[w].connection = connection]
      s2 == IF connection = NULL
            THEN has_connection(call_vanished_handler(s1, w, FALSE, cur), w, is_closed)
            ELSE has_connection(s1, w, is_closed)
  IN  client_unref(s2, w)

\* connection: what g_bus_get_finish returned
connection_get_cb(s, w, connection, cur, is_closed) ==
  LET s1 == [s EXCEPT !.c[w].connection = connection]
      s2 == IF connection = NULL
            THEN call_vanished_handler(s1, w, FALSE, cur)
            ELSE has_connection(s1, w, is_closed)
  IN  client_unref(s2, w)

\* ------------------------------------------------------------ watcher API
IsFree(w) == client[w].status \in {"unused", "freed"}

\* g_new0: the allocator hands out a slot that holds no live Client
FreeSlot == CHOOSE w \in Clients : IsFree(w) /\ \A v \in Clients : IsFree(v) => w <= v

\* the fields g_bus_watch_name and g_bus_watch_name_on_connection set under the lock
InitClient(id, auto_start, appeared, vanished, ctx) ==
  [NewClient("live") EXCEPT !.ref_count = 1, !.id = id, !.auto_start = auto_start,
                            !.name_appeared_handler = appeared,
                            !.name_vanished_handler = vanished,
                            !.main_context = ctx]

\* ctx: g_main_context_get_thread_default () of the calling thread
g_bus_watch_name(auto_start, appeared, vanished, ctx) ==
  /\ \E w \in Clients : IsFree(w)
  /\ LET w == FreeSlot
         id == next_global_id
         s0 == [Cur EXCEPT !.c[w] = InitClient(id, auto_start, appeared, vanished, ctx),
                           !.calls[w] = <<>>, !.decided[w] = 0]
         s1 == [client_ref(s0, w) EXCEPT !.pending[w] = "g_bus_get"]
     IN  /\ next_global_id' = (next_global_id + 1) % IdModulus
         /\ map_id_to_client' = [map_id_to_client EXCEPT ![id] = w]
         /\ Commit(s1)
  /\ UNCHANGED <<closed, bus_owner, changes, logged, dispatcher, app_vars,
                 cmd_vars, lock_vars>>

g_bus_watch_name_on_connection(auto_start, appeared, vanished, ctx) ==
  /\ ~closed
  /\ \E w \in Clients : IsFree(w)
  /\ LET w == FreeSlot
         id == next_global_id
         s0 == [Cur EXCEPT !.c[w] = [InitClient(id, auto_start, appeared, vanished, ctx)
                                       EXCEPT !.connection = TheConnection],
                           !.calls[w] = <<>>, !.decided[w] = 0]
         s1 == has_connection(s0, w, closed)
     IN  /\ next_global_id' = (next_global_id + 1) % IdModulus
         /\ map_id_to_client' = [map_id_to_client EXCEPT ![id] = w]
         /\ Commit(s1)
  /\ UNCHANGED <<closed, bus_owner, changes, logged, dispatcher, app_vars,
                 cmd_vars, lock_vars>>

\* g_return_val_if_fail (g_dbus_is_name (name), 0)
g_bus_watch_name_invalid ==
  /\ logged' = "critical"
  /\ UNCHANGED <<client, next_global_id, map_id_to_client, idle, pending, inbox,
                 closed, bus_owner, changes, calls, decided, dispatcher, app_vars,
                 cmd_vars, lock_vars>>

g_bus_unwatch_name(watcher_id) ==
  /\ IF watcher_id = 0
     THEN /\ logged' = "critical"
          /\ UNCHANGED <<client, map_id_to_client, idle, pending, inbox, calls, decided>>
     ELSE IF map_id_to_client[watcher_id] = NoClient
     THEN /\ logged' = "warning"
          /\ UNCHANGED <<client, map_id_to_client, idle, pending, inbox, calls, decided>>
     ELSE LET w == map_id_to_client[watcher_id]
              s1 == [Cur EXCEPT !.c[w].cancelled = TRUE]
          IN  /\ map_id_to_client' = [map_id_to_client EXCEPT ![watcher_id] = NoClient]
              /\ Commit(client_unref(s1, w))
              /\ UNCHANGED logged
  /\ UNCHANGED <<next_global_id, closed, bus_owner, changes, dispatcher, app_vars,
                 cmd_vars, lock_vars>>

\* ------------------------------------------- completions, signals, the bus
IsLive(w) == client[w].status = "live"

\* g_main_context_get_thread_default () while a completion or a signal handler of
\* client w runs.  GDBus runs them either on the context that was thread-default
\* when the call was made or the signal subscribed (for this code the captured
\* main_context), or on the context of the bus handle's worker.
HandlerContext(w) ==
  IF dispatcher.completions = "caller" THEN client[w].main_context
  ELSE dispatcher.worker

\* g_main_context_get_thread_default () while the handler of the connection's
\* "closed" signal runs: the context of the bus handle's worker
ClosedContext == dispatcher.worker

HeadIs(w, type, method) ==
  /\ inbox[w] /= <<>>
  /\ Head(inbox[w]).type = type
  /\ type = "reply" => Head(inbox[w]).method = method

Popped(w) == [Cur EXCEPT !.inbox[w] = Tail(@)]

\* g_bus_get completes; connection is what g_bus_get_finish returns
ConnectionGetCb(w, connection, cur) ==
  /\ IsLive(w) /\ pending[w] = "g_bus_get"
  /\ connection /= NULL => ~closed
  /\ Commit(connection_get_cb([Cur EXCEPT !.pending[w] = "none"], w, connection,
                              cur, closed))
  /\ UNCHANGED <<next_global_id, map_id_to_client, closed, bus_owner, changes, logged, dispatcher, app_vars,
                 cmd_vars, lock_vars>>

StartServiceByNameCb(w, cur) ==
  /\ IsLive(w) /\ HeadIs(w, "reply", "StartServiceByName")
  /\ Commit(start_service_by_name_cb(Popped(w), w, Head(inbox[w]).result, cur, closed))
  /\ UNCHANGED <<next_global_id, map_id_to_client, closed, bus_owner, changes, logged, dispatcher, app_vars,
                 cmd_vars, lock_vars>>

GetNameOwnerCb(w, cur) ==
  /\ IsLive(w) /\ HeadIs(w, "reply", "GetNameOwner")
  /\ Commit(get_name_owner_cb(Popped(w), w, Head(inbox[w]).result, cur))
  /\ UNCHANGED <<next_global_id, map_id_to_client, closed, bus_owner, changes, logged, dispatcher, app_vars,
                 cmd_vars, lock_vars>>

NameOwnerChanged(w, cur) ==
  /\ IsLive(w) /\ HeadIs(w, "NameOwnerChanged", "")
  /\ client[w].name_owner_changed_subscription_id > 0
  /\ Commit(on_name_owner_changed(Popped(w), w, Head(inbox[w]), cur))
  /\ UNCHANGED <<next_global_id, map_id_to_client, closed, bus_owner, changes, logged, dispatcher, app_vars,
                 cmd_vars, lock_vars>>

\* a signal that is not the bus daemon's NameOwnerChanged (match: its sender, path
\* and interface are the daemon's) or not about the watched name (name_ok)
OtherSignal(match, name_ok, old_owner, new_owner) ==
  [type |-> "NameOwnerChanged", match |-> match, name_ok |-> name_ok,
   old_owner |-> old_owner, new_owner |-> new_owner]

\* the old_owner and new_owner of such signals: a name appears, vanishes, changes
\* hands
OtherOwners == {<<NoOwner, ":1.5">>, <<":1.5", NoOwner>>, <<":1.5", ":1.6">>}

\* on_name_owner_changed is handed such a signal
OtherNameOwnerChanged(w, match, name_ok, owners, cur) ==
  /\ IsLive(w) /\ client[w].name_owner_changed_subscription_id > 0
  /\ ~match \/ ~name_ok
  /\ Commit(on_name_owner_changed(Cur, w,
                                  OtherSignal(match, name_ok, owners[1], owners[2]),
                                  cur))
  /\ UNCHANGED <<next_global_id, map_id_to_client, closed, bus_owner, changes, logged,
                 dispatcher, app_vars, cmd_vars, lock_vars>>

\* the "closed" signal of the connection reaches a client that connected to it
ConnectionDisconnected(w, cur) ==
  /\ closed /\ IsLive(w)
  /\ client[w].connection /= NULL /\ client[w].disconnected_signal_handler_id > 0
  /\ Commit(on_connection_disconnected(Cur, w, cur))
  /\ UNCHANGED <<next_global_id, map_id_to_client, closed, bus_owner, changes, logged, dispatcher, app_vars,
                 cmd_vars, lock_vars>>

\* the main loop of ctx dispatches its first idle source
CallInIdleCb(ctx) ==
  /\ idle[ctx] /= <<>>
  /\ Commit(call_in_idle_cb(Cur, ctx))
  /\ UNCHANGED <<next_global_id, map_id_to_client, closed, bus_owner, changes, logged, dispatcher, app_vars,
                 cmd_vars, lock_vars>>

Subscribed(w) ==
  /\ IsLive(w) /\ client[w].connection /= NULL
  /\ client[w].name_owner_changed_subscription_id > 0

\* mutant: a signal overtakes the messages sent before it
Broadcast_overtaking(q, old_owner, new_owner) ==
  [w \in Clients |->
     IF Subscribed(w) /\ ~closed THEN <<Signal(old_owner, new_owner)>> \o q[w]
     ELSE q[w]]

\* the bus daemon sends NameOwnerChanged to every connection with a match rule
Broadcast(q, old_owner, new_owner) ==
  [w \in Clients |->
     IF Subscribed(w) /\ ~closed THEN Append(q[w], Signal(old_owner, new_owner))
     ELSE q[w]]

\* the watched name changes hands on the bus
BusOwnerChange(new_owner) ==
  /\ changes < MaxChanges
  /\ new_owner /= bus_owner
  /\ bus_owner' = new_owner
  /\ changes' = changes + 1
  /\ inbox' = Broadcast(inbox, bus_owner, new_owner)
  /\ UNCHANGED <<client, next_global_id, map_id_to_client, idle, pending, closed,
                 calls, decided, logged, dispatcher, app_vars,
                 cmd_vars, lock_vars>>

\* the bus daemon answers GetNameOwner
BusGetNameOwner(w) ==
  /\ ~closed /\ pending[w] = "GetNameOwner"
  /\ pending' = [pending EXCEPT ![w] = "none"]
  /\ inbox' = [inbox EXCEPT ![w] =
       Append(@, Reply("GetNameOwner",
                       IF bus_owner /= NoOwner THEN Result(TRUE, bus_owner) ELSE Failed))]
  /\ UNCHANGED <<client, next_global_id, map_id_to_client, idle, closed, bus_owner,
                 changes, calls, decided, logged, dispatcher, app_vars,
                 cmd_vars, lock_vars>>

\* the bus daemon answers StartServiceByName: 2 when the name has an owner, 1 when
\* it started the service (which then owns the name), an error when no service
\* file provides the name
BusStartServiceByName(w, code, started) ==
  /\ ~closed /\ pending[w] = "StartServiceByName"
  /\ pending' = [pending EXCEPT ![w] = "none"]
  /\ \/ /\ code = 2 /\ bus_owner /= NoOwner
        /\ inbox' = [inbox EXCEPT ![w] =
                       Append(@, Reply("StartServiceByName", Result(TRUE, 2)))]
        /\ UNCHANGED <<bus_owner, changes>>
     \/ /\ code = 1 /\ bus_owner = NoOwner /\ changes < MaxChanges
        /\ bus_owner' = started
        /\ changes' = changes + 1
        /\ inbox' = [Broadcast(inbox, NoOwner, started) EXCEPT ![w] =
                       Append(@, Reply("StartServiceByName", Result(TRUE, 1)))]
     \/ /\ code = 0 /\ bus_owner = NoOwner
        /\ inbox' = [inbox EXCEPT ![w] = Append(@, Reply("StartServiceByName", Failed))]
        /\ UNCHANGED <<bus_owner, changes>>
     \/ /\ code \notin {0, 1, 2}
        /\ inbox' = [inbox EXCEPT ![w] =
                       Append(@, Reply("StartServiceByName", Result(TRUE, code)))]
        /\ UNCHANGED <<bus_owner, changes>>
  /\ UNCHANGED <<client, next_global_id, map_id_to_client, idle, closed,
                 calls, decided, logged, dispatcher, app_vars,
                 cmd_vars, lock_vars>>

\* the connection closes: the calls the bus has not answered fail
CloseConnection ==
  /\ ~closed
  /\ closed' = TRUE
  /\ pending' = [w \in Clients |->
                   IF pending[w] \in {"GetNameOwner", "StartServiceByName"}
                   THEN "none" ELSE pending[w]]
  /\ inbox' = [w \in Clients |->
                 IF pending[w] \in {"GetNameOwner", "StartServiceByName"}
                 THEN Append(inbox[w], Reply(pending[w], Failed)) ELSE inbox[w]]
  /\ UNCHANGED <<client, next_global_id, map_id_to_client, idle, bus_owner, changes,
                 calls, decided, logged, dispatcher, app_vars,
                 cmd_vars, lock_vars>>

\* ----------------------------------------------------- the registry lock
\* G_LOCK_DEFINE_STATIC (lock) and the threads that call the watcher API.  A call
\* is cut where it takes and where it gives up the lock: what runs in between
\* is one step, what runs after G_UNLOCK another.
Threads == {"T1", "T2"}
NoThread == "none"

G_BUS_WATCH_NAME == "g_bus_watch_name"
G_BUS_WATCH_NAME_ON_CONNECTION == "g_bus_watch_name_on_connection"
G_BUS_UNWATCH_NAME == "g_bus_unwatch_name"

\* a thread outside the watcher API; watched: it has registered its watcher
NotCalling ==
  [pc |-> "idle", op |-> "none", watcher_id |-> 0, client |-> NoClient,
   watched |-> FALSE]

Running(t, op, pc) == thread[t].op = op /\ thread[t].pc = pc

At(t, pc, watcher_id, w) ==
  thread' = [thread EXCEPT ![t].pc = pc, ![t].watcher_id = watcher_id, ![t].client = w]

Leave(t) ==
  thread' = [thread EXCEPT ![t] = [NotCalling EXCEPT !.watched = thread[t].watched]]

\* threads inside a watch call that has not allocated its Client yet
Allocating ==
  {t \in DOMAIN thread :
     /\ thread[t].op \in {G_BUS_WATCH_NAME, G_BUS_WATCH_NAME_ON_CONNECTION}
     /\ thread[t].pc \in {"G_LOCK", "locked"}}

\* a thread enters g_bus_watch_name or g_bus_watch_name_on_connection (the name is
\* a bus name, the connection a connection: the argument checks pass); each
\* thread registers one watcher
CallWatch(t, op) ==
  /\ thread[t].pc = "idle" /\ ~thread[t].watched
  /\ Cardinality({w \in Clients : IsFree(w)}) > Cardinality(Allocating)
  /\ thread' = [thread EXCEPT ![t] = [NotCalling EXCEPT !.pc = "G_LOCK", !.op = op,
                                                        !.watched = TRUE]]
  /\ UNCHANGED <<watcher_vars, app_vars, cmd_vars, lock>>

\* the ids the watch calls have returned and that are registered
Returned ==
  {id \in Ids :
     /\ map_id_to_client[id] /= NoClient
     /\ \A t \in DOMAIN thread :
          thread[t].op \in {G_BUS_WATCH_NAME, G_BUS_WATCH_NAME_ON_CONNECTION}
            => thread[t].client /= map_id_to_client[id]}

\* a thread enters g_bus_unwatch_name with an id some watch call returned;
\* g_return_if_fail (watcher_id > 0) comes before G_LOCK
CallUnwatch(t, watcher_id) ==
  /\ thread[t].pc = "idle"
  /\ watcher_id \in Returned
  /\ IF watcher_id > 0
     THEN /\ thread' = [thread EXCEPT ![t].pc = "G_LOCK", ![t].op = G_BUS_UNWATCH_NAME,
                                      ![t].watcher_id = watcher_id]
          /\ UNCHANGED logged
     ELSE /\ logged' = "critical"
          /\ UNCHANGED thread
  /\ UNCHANGED <<client, next_global_id, map_id_to_client, idle, pending, inbox,
                 closed, bus_owner, changes, calls, decided, dispatcher,
                 app_vars, cmd_vars, lock>>

G_LOCK(t) ==
  /\ thread[t].pc = "G_LOCK"
  /\ lock = NoThread
  /\ lock' = t
  /\ At(t, "locked", thread[t].watcher_id, thread[t].client)
  /\ UNCHANGED <<watcher_vars, app_vars, cmd_vars>>

G_UNLOCK(t) ==
  /\ thread[t].pc = "G_UNLOCK"
  /\ lock = t
  /\ lock' = NoThread
  /\ IF thread[t].op = G_BUS_WATCH_NAME \/ thread[t].client = NoClient
     THEN Leave(t)
     ELSE At(t, "unlocked", thread[t].watcher_id, thread[t].client)
  /\ UNCHANGED <<watcher_vars, app_vars, cmd_vars>>

\* g_bus_watch_name between G_LOCK and G_UNLOCK
watch_name_locked(s, w, id, auto_start, appeared, vanished, ctx) ==
  LET s0 == [s EXCEPT !.c[w] = InitClient(id, auto_start, appeared, vanished, ctx),
                      !.calls[w] = <<>>, !.decided[w] = 0]
  IN  [client_ref(s0, w) EXCEPT !.pending[w] = "g_bus_get"]

\* mutant: has_connection is called before G_UNLOCK
watch_name_on_connection_locked_has_connection(s, w, id, auto_start, appeared, vanished, ctx) ==
  has_connection(
    [s EXCEPT !.c[w] = [InitClient(id, auto_start, appeared, vanished, ctx)
                          EXCEPT !.connection = TheConnection],
              !.calls[w] = <<>>, !.decided[w] = 0], w, FALSE)

\* g_bus_watch_name_on_connection between G_LOCK and G_UNLOCK
watch_name_on_connection_locked(s, w, id, auto_start, appeared, vanished, ctx) ==
  [s EXCEPT !.c[w] = [InitClient(id, auto_start, appeared, vanished, ctx)
                        EXCEPT !.connection = TheConnection],
            !.calls[w] = <<>>, !.decided[w] = 0]

WatchLocked(t, auto_start, appeared, vanished, ctx) ==
  /\ thread[t].pc = "locked" /\ lock = t
  /\ thread[t].op \in {G_BUS_WATCH_NAME, G_BUS_WATCH_NAME_ON_CONNECTION}
  /\ LET w == FreeSlot
         id == next_global_id
     IN  /\ next_global_id' = (next_global_id + 1) % IdModulus
         /\ map_id_to_client' = [map_id_to_client EXCEPT ![id] = w]
         /\ Commit(IF thread[t].op = G_BUS_WATCH_NAME
                   THEN watch_name_locked(Cur, w, id, auto_start, appeared,
                                          vanished, ctx)
                   ELSE watch_name_on_connection_locked(Cur, w, id, auto_start,
                                                        appeared, vanished, ctx))
         /\ At(t, "G_UNLOCK", id, w)
  /\ UNCHANGED <<closed, bus_owner, changes, logged, dispatcher, app_vars, cmd_vars,
                 lock>>

\* g_bus_watch_name_on_connection after G_UNLOCK
WatchUnlocked(t) ==
  /\ Running(t, G_BUS_WATCH_NAME_ON_CONNECTION, "unlocked")
  /\ Commit(has_connection(Cur, thread[t].client, closed))
  /\ Leave(t)
  /\ UNCHANGED <<next_global_id, map_id_to_client, closed, bus_owner, changes, logged,
                 dispatcher, app_vars, cmd_vars, lock>>

\* mutant: the reference is dropped before G_UNLOCK
unwatch_name_locked_unref(s, w) ==
  client_unref([s EXCEPT !.c[w].cancelled = TRUE], w)

\* g_bus_unwatch_name between G_LOCK and G_UNLOCK, the watcher found
unwatch_name_locked(s, w) ==
  [s EXCEPT !.c[w].cancelled = TRUE]

UnwatchLocked(t) ==
  /\ Running(t, G_BUS_UNWATCH_NAME, "locked") /\ lock = t
  /\ LET watcher_id == thread[t].watcher_id
         w == map_id_to_client[watcher_id]
     IN  IF w = NoClient
         THEN /\ logged' = "warning"
              /\ At(t, "G_UNLOCK", watcher_id, NoClient)
              /\ UNCHANGED <<client, map_id_to_client, idle, pending, inbox, calls,
                             decided>>
         ELSE /\ map_id_to_client' = [map_id_to_client EXCEPT ![watcher_id] = NoClient]
              /\ Commit(unwatch_name_locked(Cur, w))
              /\ At(t, "G_UNLOCK", watcher_id, w)
              /\ UNCHANGED logged
  /\ UNCHANGED <<next_global_id, closed, bus_owner, changes, dispatcher, app_vars,
                 cmd_vars, lock>>

\* g_bus_unwatch_name after G_UNLOCK: do callback without holding lock
UnwatchUnlocked(t) ==
  /\ Running(t, G_BUS_UNWATCH_NAME, "unlocked")
  /\ Commit(client_unref(Cur, thread[t].client))
  /\ Leave(t)
  /\ UNCHANGED <<next_global_id, map_id_to_client, closed, bus_owner, changes, logged,
                 dispatcher, app_vars, cmd_vars, lock>>

\* ------------------------------------------------ application registrar
\* g_slice_free (GApplicationImpl, impl): no GApplicationImpl
NoImpl ==
  [allocated |-> FALSE, bus_name |-> NoString, session_bus |-> NULL,
   object_path |-> NoString, object_id |-> 0]

\* what g_application_impl_register gave its caller: the pointer returned, the
\* caller's is_remote (FALSE while the call has not written it), the GError set;
\* and for the record the reply code of RequestName (0: the call got no reply)
Return(returned, is_remote, error, rval) ==
  [returned |-> returned, is_remote |-> is_remote, error |-> error, rval |-> rval]

NoReturn == Return("none", FALSE, "none", 0)

NotRegistering == [pc |-> "idle", appid |-> NoString, flags |-> {}, reply |-> Failed]

\* the application state the registrar works on
AppCur ==
  [impl |-> impl, reg |-> reg, ret |-> ret, connected |-> connected,
   exported |-> exported, bus_names |-> bus_names]

AppCommit(a) ==
  /\ impl' = a.impl
  /\ reg' = a.reg
  /\ ret' = a.ret
  /\ connected' = a.connected
  /\ exported' = a.exported
  /\ bus_names' = a.bus_names

application_path_from_appid(appid) ==
  [i \in 1 .. (Len(appid) + 1) |->
     IF i = 1 THEN "/"
     ELSE IF appid[i - 1] = "." THEN "/" ELSE appid[i - 1]]

\* g_object_unref (impl->session_bus); last_ref: nothing else in the process holds
\* the connection, which is then closed: its exports go and the bus daemon
\* releases the names it owned
session_bus_unref(a, p, last_ref) ==
  IF last_ref
  THEN [a EXCEPT !.connected[p] = FALSE,
                 !.exported[p] = {},
                 !.bus_names = [n \in AppIds |-> IF @[n] = p THEN NoProc ELSE @[n]]]
  ELSE a

\* mutant: the object stays registered
connection_unregister_object_forgotten(a, p) == a

connection_unregister_object(a, p) ==
  [a EXCEPT !.exported[p] = @ \ {a.impl[p].object_path}]

\* mutant: no reply code makes the registration remote
is_remote_never(rval) == FALSE

\* mutant: every reply code but 1 makes the registration remote
is_remote_unless_primary_owner(rval) == rval /= 1

\* DBUS_REQUEST_NAME_REPLY_EXISTS: 3
is_remote_from_reply(rval) == rval = 3

\* mutant: G_APPLICATION_IS_SERVICE is not looked at
must_own_name_never(flags) == FALSE

\* flags & G_APPLICATION_IS_SERVICE
must_own_name(flags) == G_APPLICATION_IS_SERVICE \in flags

\* mutant: G_APPLICATION_IS_LAUNCHER is not looked at
is_launcher_never(flags) == FALSE

\* flags & G_APPLICATION_IS_LAUNCHER
is_launcher(flags) == G_APPLICATION_IS_LAUNCHER \in flags

\* g_application_impl_register up to the RequestName call it then blocks in.
\* bus_ok: g_bus_get_sync can connect; export_ok: g_dbus_connection_register_object
\* succeeds
g_application_impl_register_request(a, p, appid, flags, bus_ok, export_ok, last_ref) ==
  LET path == application_path_from_appid(appid)
      failed(error) == Return("NULL", FALSE, error, 0)
  IN  IF ~(a.connected[p] \/ bus_ok)
      THEN [a EXCEPT !.ret[p] = failed("g_bus_get_sync")]
      ELSE
        LET a1 == [a EXCEPT !.connected[p] = TRUE,
                            !.impl[p] = [allocated |-> TRUE, bus_name |-> appid,
                                         session_bus |-> TheConnection,
                                         object_path |-> path, object_id |-> 0]]
        IN  IF is_launcher(flags)
            THEN [a1 EXCEPT !.ret[p] = Return("impl", TRUE, "none", 0)]
            ELSE IF ~export_ok \/ path \in a1.exported[p]
            THEN session_bus_unref(
                   [a1 EXCEPT !.impl[p] = NoImpl,
                              !.ret[p] = failed("g_dbus_connection_register_object")],
                   p, last_ref)
            ELSE [a1 EXCEPT !.impl[p].object_id = 1,
                            !.exported[p] = @ \cup {path},
                            !.ret[p] = NoReturn,
                            !.reg[p] = [pc |-> "RequestName", appid |-> appid,
                                        flags |-> flags, reply |-> Failed]]

\* g_application_impl_register from the reply of RequestName on
g_application_impl_register_reply(a, p, reply, last_ref) ==
  LET flags == a.reg[p].flags
      a0 == [a EXCEPT !.reg[p] = NotRegistering]
  IN  IF ~reply.ok
      THEN session_bus_unref(
             [connection_unregister_object(a0, p)
                EXCEPT !.impl[p] = NoImpl,
                       !.ret[p] = Return("NULL", FALSE, "RequestName", 0)],
             p, last_ref)
      ELSE
        LET rval == reply.value
            is_remote == is_remote_from_reply(rval)
        IN  IF is_remote
            THEN LET a1 == [connection_unregister_object(a0, p)
                              EXCEPT !.impl[p].object_id = 0]
                 IN  IF must_own_name(flags)
                     THEN session_bus_unref(
                            [a1 EXCEPT !.impl[p] = NoImpl,
                                       !.ret[p] = Return("NULL", is_remote,
                                                         "Unable to acquire bus name",
                                                         rval)],
                            p, last_ref)
                     ELSE [a1 EXCEPT !.ret[p] = Return("impl", is_remote, "none", rval)]
            ELSE [a0 EXCEPT !.ret[p] = Return("impl", is_remote, "none", rval)]

\* mutant: the object is not unregistered
g_application_impl_destroy_keeps_object(a, p, last_ref) ==
  LET a1 == IF a.impl[p].session_bus /= NULL THEN session_bus_unref(a, p, last_ref)
            ELSE a
  IN  [a1 EXCEPT !.impl[p] = NoImpl]

g_application_impl_destroy(a, p, last_ref) ==
  LET a1 == IF a.impl[p].session_bus /= NULL
            THEN session_bus_unref(
                   IF a.impl[p].object_id /= 0 THEN connection_unregister_object(a, p)
                   ELSE a,
                   p, last_ref)
            ELSE a
  IN  [a1 EXCEPT !.impl[p] = NoImpl]

\* a process calls g_application_impl_register; it owns no GApplicationImpl.
\* An input the call does not read has one value.
Register(p, appid, flags, bus_ok, export_ok, last_ref) ==
  /\ reg[p].pc = "idle" /\ ~impl[p].allocated
  /\ connected[p] => bus_ok
  /\ (~bus_ok \/ G_APPLICATION_IS_LAUNCHER \in flags) => export_ok
  /\ export_ok => ~last_ref
  /\ AppCommit(g_application_impl_register_request(AppCur, p, appid, flags, bus_ok,
                                                   export_ok, last_ref))
  /\ UNCHANGED <<watcher_vars, cmd_vars, lock_vars>>

\* the bus daemon handles RequestName with DBUS_NAME_FLAG_DO_NOT_QUEUE: 1 when the
\* name was free and is now the caller's, 4 when the caller owns it already, 3
\* when another connection owns it; or the call fails
RequestName(p, ok) ==
  /\ reg[p].pc = "RequestName"
  /\ LET n == reg[p].appid
         rval == IF bus_names[n] = NoProc THEN 1 ELSE IF bus_names[n] = p THEN 4 ELSE 3
     IN  IF ok
         THEN /\ reg' = [reg EXCEPT ![p].pc = "replied", ![p].reply = Result(TRUE, rval)]
              /\ bus_names' = [bus_names EXCEPT ![n] = IF @ = NoProc THEN p ELSE @]
         ELSE /\ reg' = [reg EXCEPT ![p].pc = "replied", ![p].reply = Failed]
              /\ UNCHANGED bus_names
  /\ UNCHANGED <<impl, ret, connected, exported>>
  /\ UNCHANGED <<watcher_vars, cmd_vars, lock_vars>>

\* g_dbus_connection_call_sync returns
RegisterReply(p, last_ref) ==
  /\ reg[p].pc = "replied"
  /\ (reg[p].reply.ok /\ ~(is_remote_from_reply(reg[p].reply.value)
                            /\ must_own_name(reg[p].flags))) => ~last_ref
  /\ AppCommit(g_application_impl_register_reply(AppCur, p, reg[p].reply, last_ref))
  /\ UNCHANGED <<watcher_vars, cmd_vars, lock_vars>>

Destroy(p, last_ref) ==
  /\ reg[p].pc = "idle" /\ impl[p].allocated
  /\ AppCommit(g_application_impl_destroy(AppCur, p, last_ref))
  /\ UNCHANGED <<watcher_vars, cmd_vars, lock_vars>>

\* ------------------------------- application dispatcher and command line
\* the exit statuses a command-line handler returns
Statuses == {0, 2}

\* the methods of org.gtk.private.CommandLine
Sinks == {"Print", "PrintError"}

CommandLinePath == <<"/org/gtk/Application/CommandLine">>

\* the text of error->message; the messages the application prints are 1, 2, ...
ErrorMessage == 0

\* the CommandLineData and object_id of a g_application_impl_command_line that is
\* not running
NoRound == [pc |-> "idle", serial |-> 0, status |-> 0, object_id |-> 0]

MethodCall(sender, serial, path, method, body) ==
  [type |-> "method_call", sender |-> sender, serial |-> serial, path |-> path,
   method |-> method, body |-> body]

MethodReturn(sender, reply_serial, body) ==
  [type |-> "method_return", sender |-> sender, serial |-> reply_serial,
   path |-> NoString, method |-> "", body |-> body]

MethodError(reply_serial) ==
  [type |-> "error", sender |-> NoProc, serial |-> reply_serial,
   path |-> NoString, method |-> "", body |-> 0]

\* what the application of a process saw or did, for the call <<sender, serial>>
Event(ev, call, value) == [ev |-> ev, call |-> call, value |-> value]

CmdCur ==
  [wire |-> wire, sent |-> sent, cmdlines |-> cmdlines, round |-> round,
   trace |-> trace, exported |-> exported]

CmdCommit(c) ==
  /\ wire' = c.wire
  /\ sent' = c.sent
  /\ cmdlines' = c.cmdlines
  /\ round' = c.round
  /\ trace' = c.trace
  /\ exported' = c.exported

\* the bus daemon's owner of a well-known name
NameOwner(bus_name) == bus_names[bus_name]

\* g_dbus_connection_call of process p to the connection dest: the message joins
\* what the bus delivers to dest, in the order sent; a name nobody owns makes the
\* bus answer with an error
g_dbus_connection_call(c, p, dest, path, method, body) ==
  LET serial == c.sent[p] + 1
  IN  IF dest = NoProc
      THEN [c EXCEPT !.sent[p] = serial,
                     !.wire[p] = Append(@, MethodError(serial))]
      ELSE [c EXCEPT !.sent[p] = serial,
                     !.wire[dest] = Append(@, MethodCall(p, serial, path, method, body))]

\* g_dbus_method_invocation_return_value on a call that awaits a reply
invocation_return_value(c, p, call, value) ==
  [c EXCEPT !.wire[call[1]] = Append(@, MethodReturn(p, call[2], value)),
            !.trace[p] = Append(@, Event("reply", call, value))]

g_application_impl_activate(c, p) ==
  g_dbus_connection_call(c, p, NameOwner(impl[p].bus_name), impl[p].object_path,
                         "Activate", 0)

g_application_impl_open(c, p) ==
  g_dbus_connection_call(c, p, NameOwner(impl[p].bus_name), impl[p].object_path,
                         "Open", 0)

\* the messages printed so far through the channel of a call
Printed(tr, call) ==
  Len(SelectSeq(tr, LAMBDA e : e.call = call
                                 /\ e.ev \in {"print_literal", "printerr_literal"}))

g_dbus_command_line_new(m) ==
  [invocation |-> <<m.sender, m.serial>>, bus_name |-> m.sender,
   object_path |-> m.body, exit_status |-> 0, ref_count |-> 1]

\* g_dbus_command_line_print_literal (sink "Print") and
\* g_dbus_command_line_printerr_literal (sink "PrintError")
g_dbus_command_line_print_literal(c, p, cl, sink) ==
  LET message == Printed(c.trace[p], cl.invocation) + 1
      ev == IF sink = "Print" THEN "print_literal" ELSE "printerr_literal"
  IN  [g_dbus_connection_call(c, p, cl.bus_name, cl.object_path, sink, message)
         EXCEPT !.trace[p] = Append(@, Event(ev, cl.invocation, message))]

RECURSIVE print_literals(_, _, _, _)
print_literals(c, p, cl, sinks) ==
  IF sinks = <<>> THEN c
  ELSE print_literals(g_dbus_command_line_print_literal(c, p, cl, Head(sinks)),
                      p, cl, Tail(sinks))

\* mutant: the invocation is released without a reply
g_dbus_command_line_finalize_silent(c, p, cl) ==
  [c EXCEPT !.cmdlines[p] = @ \ {cl}]

g_dbus_command_line_finalize(c, p, cl) ==
  [invocation_return_value(c, p, cl.invocation, cl.exit_status)
     EXCEPT !.cmdlines[p] = @ \ {cl}]

\* g_object_unref of a GDBusCommandLine
cmdline_unref(c, p, cl) ==
  IF cl.ref_count = 1
  THEN g_dbus_command_line_finalize(c, p, cl)
  ELSE [c EXCEPT !.cmdlines[p] = (@ \ {cl}) \cup {[cl EXCEPT !.ref_count = @ - 1]}]

\* mutant: the hook is not called
before_emit_skipped(c, p, call) == c

\* class->before_emit (impl->app, platform_data)
before_emit(c, p, call) ==
  [c EXCEPT !.trace[p] = Append(@, Event("before_emit", call, 0))]

\* class->after_emit (impl->app, platform_data)
after_emit(c, p, call) ==
  [c EXCEPT !.trace[p] = Append(@, Event("after_emit", call, 0))]

\* status: what the handlers of the signal return (0: the signal returns nothing)
g_signal_emit_by_name(c, p, call, signal, status) ==
  [c EXCEPT !.trace[p] = Append(@, Event(signal, call, status))]

\* the method call handler of org.gtk.Application.  app: what the application's
\* command-line handler does with the channel: the sinks it prints to, in order,
\* whether it keeps a reference of its own, and the status it returns
g_application_impl_method_call(c, p, m, app) ==
  LET call == <<m.sender, m.serial>>
  IN  IF m.method = "Activate"
      THEN after_emit(g_signal_emit_by_name(before_emit(c, p, call), p, call,
                                            "activate", 0), p, call)
      ELSE IF m.method = "Open"
      THEN after_emit(g_signal_emit_by_name(before_emit(c, p, call), p, call,
                                            "open", 0), p, call)
      ELSE
        LET cmdline == g_dbus_command_line_new(m)
            held == [cmdline EXCEPT !.ref_count = IF app.hold THEN 2 ELSE 1]
            done == [held EXCEPT !.exit_status = app.status]
            c1 == before_emit([c EXCEPT !.cmdlines[p] = @ \cup {cmdline}], p, call)
            c2 == print_literals(g_signal_emit_by_name(c1, p, call, "command-line",
                                                       app.status),
                                 p, cmdline, app.prints)
            c3 == [c2 EXCEPT !.cmdlines[p] = (@ \ {cmdline}) \cup {done}]
        IN  cmdline_unref(after_emit(c3, p, call), p, done)

\* mutant: every message goes to stdout
g_application_impl_cmdline_method_call_stdout(c, p, m) ==
  [c EXCEPT !.trace[p] = @ \o <<Event("stdout", <<m.sender, m.serial>>, m.body),
                                 Event("reply", <<m.sender, m.serial>>, 0)>>]

g_application_impl_cmdline_method_call(c, p, m) ==
  LET call == <<m.sender, m.serial>>
      stream == IF m.method = "Print" THEN "stdout" ELSE "stderr"
  IN  [c EXCEPT !.trace[p] = @ \o <<Event(stream, call, m.body),
                                     Event("reply", call, 0)>>]

\* mutant: the status of the reply is not taken
g_application_impl_cmdline_done_error_only(c, p, result) ==
  [c EXCEPT !.round[p].status = 1, !.round[p].pc = "quit"]

\* the completion of the CommandLine call; g_main_loop_quit
g_application_impl_cmdline_done(c, p, result) ==
  IF result.ok
  THEN [c EXCEPT !.round[p].status = result.value, !.round[p].pc = "quit"]
  ELSE [c EXCEPT !.round[p].status = 1, !.round[p].pc = "quit",
                 !.trace[p] = Append(@, Event("stderr", <<p, c.round[p].serial>>,
                                              ErrorMessage))]

\* g_application_impl_command_line up to g_main_loop_run
g_application_impl_command_line(c, p) ==
  IF CommandLinePath \in c.exported[p]
  THEN [c EXCEPT !.round[p].pc = "aborted", !.round[p].object_id = 0]
  ELSE g_dbus_connection_call(
         [c EXCEPT !.exported[p] = @ \cup {CommandLinePath},
                   !.round[p] = [pc |-> "loop", serial |-> c.sent[p] + 1,
                                 status |-> 0, object_id |-> 1]],
         p, NameOwner(impl[p].bus_name), impl[p].object_path, "CommandLine",
         CommandLinePath)

\* g_application_impl_command_line from the return of g_main_loop_run on
g_application_impl_command_line_return(c, p) ==
  [c EXCEPT !.round[p].pc = "idle",
            !.trace[p] = Append(@, Event("return", <<p, c.round[p].serial>>,
                                         c.round[p].status))]

\* a process is the primary instance, a remote one
IsPrimary(p) == impl[p].allocated /\ impl[p].object_id /= 0
IsRemote(p) == impl[p].allocated /\ impl[p].object_id = 0

\* the instances that talk to each other
Apps == DOMAIN wire

HeadOf(p) == Head(wire[p])

\* the calls the remote instances send
Calls == Procs \X (1 .. MaxCalls)

SentByRemotes == Cardinality({call \in Calls : IsRemote(call[1]) /\ call[2] <= sent[call[1]]})

Activate(p) ==
  /\ IsRemote(p) /\ round[p].pc = "idle" /\ SentByRemotes < MaxCalls
  /\ CmdCommit(g_application_impl_activate(CmdCur, p))
  /\ UNCHANGED <<watcher_vars, impl, reg, ret, connected, bus_names, lock_vars>>

Open(p) ==
  /\ IsRemote(p) /\ round[p].pc = "idle" /\ SentByRemotes < MaxCalls
  /\ CmdCommit(g_application_impl_open(CmdCur, p))
  /\ UNCHANGED <<watcher_vars, impl, reg, ret, connected, bus_names, lock_vars>>

CommandLine(p) ==
  /\ IsRemote(p) /\ round[p].pc = "idle" /\ SentByRemotes < MaxCalls
  /\ CmdCommit(g_application_impl_command_line(CmdCur, p))
  /\ UNCHANGED <<watcher_vars, impl, reg, ret, connected, bus_names, lock_vars>>

\* the sinks a handler prints to, in order
PrintSeqs == UNION {[1 .. n -> Sinks] : n \in 0 .. MaxPrints}

\* the main loop of the primary dispatches the next call to its object; the trace
\* notes the method called.  An input the handler does not read has one value.
Dispatch(p, prints, status, hold) ==
  /\ IsPrimary(p) /\ wire[p] /= <<>>
  /\ HeadOf(p).type = "method_call" /\ HeadOf(p).path \in exported[p]
  /\ HeadOf(p).method /= "CommandLine" => (prints = <<>> /\ status = 0 /\ ~hold)
  /\ CmdCommit(g_application_impl_method_call(
                 [CmdCur EXCEPT !.wire[p] = Tail(@),
                                !.trace[p] = Append(@, Event(HeadOf(p).method,
                                                             <<HeadOf(p).sender,
                                                               HeadOf(p).serial>>, 0))],
                 p, HeadOf(p),
                 [prints |-> prints, status |-> status, hold |-> hold]))
  /\ UNCHANGED <<watcher_vars, impl, reg, ret, connected, bus_names, lock_vars>>

\* the channel of a call
HasChannel(p, call) == \E cl \in cmdlines[p] : cl.invocation = call
Channel(p, call) == CHOOSE cl \in cmdlines[p] : cl.invocation = call

\* the application prints through a channel it kept
LatePrint(p, call, sink) ==
  /\ HasChannel(p, call) /\ Printed(trace[p], call) < MaxPrints
  /\ CmdCommit(g_dbus_command_line_print_literal(CmdCur, p, Channel(p, call), sink))
  /\ UNCHANGED <<watcher_vars, impl, reg, ret, connected, bus_names, lock_vars>>

\* the application drops the reference it kept
Release(p, call) ==
  /\ HasChannel(p, call)
  /\ CmdCommit(cmdline_unref(CmdCur, p, Channel(p, call)))
  /\ UNCHANGED <<watcher_vars, impl, reg, ret, connected, bus_names, lock_vars>>

\* the private loop of a round trip dispatches the next Print or PrintError
CmdlineMethodCall(p) ==
  /\ round[p].pc = "loop" /\ wire[p] /= <<>>
  /\ HeadOf(p).type = "method_call" /\ HeadOf(p).path \in exported[p]
  /\ CmdCommit(g_application_impl_cmdline_method_call(
                 [CmdCur EXCEPT !.wire[p] = Tail(@)], p, HeadOf(p)))
  /\ UNCHANGED <<watcher_vars, impl, reg, ret, connected, bus_names, lock_vars>>

\* the private loop dispatches the completion of the CommandLine call: with the
\* reply the bus delivered, or (timed_out) with the error GDBus makes when no
\* reply came in time; then g_main_loop_run returns
CmdlineDone(p, timed_out) ==
  /\ round[p].pc = "loop"
  /\ LET c0 == IF timed_out THEN CmdCur ELSE [CmdCur EXCEPT !.wire[p] = Tail(@)]
         result == IF timed_out \/ HeadOf(p).type = "error" THEN Failed
                   ELSE Result(TRUE, HeadOf(p).body)
     IN  /\ ~timed_out => /\ wire[p] /= <<>>
                          /\ HeadOf(p).type \in {"method_return", "error"}
                          /\ HeadOf(p).serial = round[p].serial
         /\ CmdCommit(g_application_impl_command_line_return(
                        g_application_impl_cmdline_done(c0, p, result), p))
  /\ UNCHANGED <<watcher_vars, impl, reg, ret, connected, bus_names, lock_vars>>

\* ------------------------------------------------------- specifications
WatcherInit ==
  /\ client = [w \in Clients |-> NewClient("unused")]
  /\ next_global_id = 1
  /\ map_id_to_client = [i \in Ids |-> NoClient]
  /\ idle = [ctx \in Contexts |-> <<>>]
  /\ pending = [w \in Clients |-> "none"]
  /\ inbox = [w \in Clients |-> <<>>]
  /\ closed = FALSE
  /\ bus_owner \in {NoOwner, ":1.5"}
  /\ changes = 0
  /\ calls = [w \in Clients |-> <<>>]
  /\ decided = [w \in Clients |-> 0]
  /\ logged = "none"
  /\ dispatcher \in [completions : {"caller", "worker"}, worker : Contexts]

AppInit ==
  /\ impl = [p \in Procs |-> NoImpl]
  /\ reg = [p \in Procs |-> NotRegistering]
  /\ ret = [p \in Procs |-> NoReturn]
  /\ connected = [p \in Procs |-> FALSE]
  /\ exported = [p \in Procs |-> {}]
  /\ bus_names = [n \in AppIds |-> NoProc]

\* the instances apps of the application begin to talk to each other: no call
\* was sent and no round trip begun
CmdlineInit(apps) ==
  /\ wire = [p \in apps |-> <<>>]
  /\ sent = [p \in apps |-> 0]
  /\ cmdlines = [p \in apps |-> {}]
  /\ round = [p \in apps |-> NoRound]
  /\ trace = [p \in apps |-> <<>>]

\* nobody holds the lock; the threads in threads can call the watcher API
LockInit(threads) ==
  /\ lock = NoThread
  /\ thread = [t \in threads |-> NotCalling]

Init ==
  /\ WatcherInit
  /\ AppInit
  /\ CmdlineInit({})
  /\ LockInit({})

NeverWatched == \A w \in Clients : client[w].status = "unused"

\* One watcher from registration to its end, with every bus and every dispatcher
Next ==
  \/ \E a \in BOOLEAN, ctx \in Contexts :
       NeverWatched /\ g_bus_watch_name(a, TRUE, TRUE, ctx)
  \/ \E a \in BOOLEAN, ctx \in Contexts :
       NeverWatched /\ g_bus_watch_name_on_connection(a, TRUE, TRUE, ctx)
  \/ \E id \in Ids : map_id_to_client[id] /= NoClient /\ g_bus_unwatch_name(id)
  \/ \E w \in Clients, conn \in {NULL, TheConnection} :
       ConnectionGetCb(w, conn, HandlerContext(w))
  \/ \E w \in Clients : StartServiceByNameCb(w, HandlerContext(w))
  \/ \E w \in Clients : GetNameOwnerCb(w, HandlerContext(w))
  \/ \E w \in Clients : NameOwnerChanged(w, HandlerContext(w))
  \/ \E w \in Clients : ConnectionDisconnected(w, ClosedContext)
  \/ \E ctx \in Contexts : CallInIdleCb(ctx)
  \/ \E o \in Owners \cup {NoOwner} : BusOwnerChange(o)
  \/ \E w \in Clients : BusGetNameOwner(w)
  \/ \E w \in Clients, code \in 0 .. 3, o \in Owners : BusStartServiceByName(w, code, o)
  \/ CloseConnection

Spec == Init /\ [][Next]_vars

\* The same with signals that are not the bus daemon's or not about the watched
\* name handed to on_name_owner_changed
SignalsNext ==
  \/ Next
  \/ \E w \in Clients, match \in BOOLEAN, name_ok \in BOOLEAN, owners \in OtherOwners :
       OtherNameOwnerChanged(w, match, name_ok, owners, HandlerContext(w))

SpecSignals == Init /\ [][SignalsNext]_vars

\* The same with NameOwnerChanged signals about the watched name whose old_owner
\* and new_owner are any pair, whatever the watcher knows: on_name_owner_changed
\* takes both from the signal's parameters.  Such signals come instead of the
\* owner changes of the bus daemon, and until MaxDecided deliveries were decided.
MaxDecided == MaxChanges + 2

AnyNameOwnerChanged(w, old_owner, new_owner, cur) ==
  /\ IsLive(w) /\ client[w].name_owner_changed_subscription_id > 0
  /\ ~closed /\ client[w].connection /= NULL
  /\ changes = 0 /\ decided[w] + 2 <= MaxDecided
  /\ Commit(on_name_owner_changed(Cur, w, Signal(old_owner, new_owner), cur))
  /\ UNCHANGED <<next_global_id, map_id_to_client, closed, bus_owner, changes, logged,
                 dispatcher, app_vars, cmd_vars, lock_vars>>

AnySignalsNext ==
  \/ Next
  \/ \E w \in Clients, old_owner \in Owners \cup {NoOwner},
         new_owner \in Owners \cup {NoOwner} :
       AnyNameOwnerChanged(w, old_owner, new_owner, HandlerContext(w))

SpecAnySignals == Init /\ [][AnySignalsNext]_vars

\* The same with a bus daemon that answers StartServiceByName with code 1, code 2
\* or an error only
OtherCodeAnswered ==
  \E w \in Clients :
    /\ pending[w] = "StartServiceByName" /\ pending'[w] = "none"
    /\ inbox'[w] /= <<>>
    /\ inbox'[w][Len(inbox'[w])].type = "reply"
    /\ inbox'[w][Len(inbox'[w])].result.ok
    /\ inbox'[w][Len(inbox'[w])].result.value \notin {1, 2}

StartedNext == Next /\ ~OtherCodeAnswered

SpecStarted == Init /\ [][StartedNext]_vars

\* The registry: several watchers registered and removed, ids allocated from
\* next_global_id.  The bus is quiet (the name keeps its owner, the connection stays
\* open) and every completion runs on the captured context.
RegistryInit ==
  /\ Init
  /\ bus_owner = NoOwner
  /\ dispatcher = [completions |-> "caller", worker |-> "default"]

RegistryNext ==
  \/ g_bus_watch_name(FALSE, TRUE, TRUE, "default")
  \/ g_bus_watch_name_on_connection(FALSE, TRUE, TRUE, "default")
  \/ g_bus_watch_name_invalid
  \/ \E id \in Ids : g_bus_unwatch_name(id)
  \/ \E w \in Clients, conn \in {NULL, TheConnection} :
       ConnectionGetCb(w, conn, HandlerContext(w))
  \/ \E w \in Clients : GetNameOwnerCb(w, HandlerContext(w))
  \/ \E w \in Clients : BusGetNameOwner(w)

SpecRegistry == RegistryInit /\ [][RegistryNext]_vars

\* The registry lock: two threads call g_bus_watch_name,
\* g_bus_watch_name_on_connection and g_bus_unwatch_name while the main loop
\* delivers.  The bus is quiet and every completion runs on the captured context,
\* which is the default one.
LockedInit ==
  /\ WatcherInit
  /\ AppInit
  /\ CmdlineInit({})
  /\ LockInit(Threads)
  /\ dispatcher = [completions |-> "caller", worker |-> "default"]

LockedNext ==
  \/ \E t \in Threads, op \in {G_BUS_WATCH_NAME, G_BUS_WATCH_NAME_ON_CONNECTION} :
       CallWatch(t, op)
  \/ \E t \in Threads, id \in Ids : CallUnwatch(t, id)
  \/ \E t \in Threads : G_LOCK(t)
  \/ \E t \in Threads : WatchLocked(t, FALSE, TRUE, TRUE, "default")
  \/ \E t \in Threads : UnwatchLocked(t)
  \/ \E t \in Threads : G_UNLOCK(t)
  \/ \E t \in Threads : WatchUnlocked(t)
  \/ \E t \in Threads : UnwatchUnlocked(t)
  \/ \E w \in Clients, conn \in {NULL, TheConnection} :
       ConnectionGetCb(w, conn, HandlerContext(w))
  \/ \E w \in Clients : GetNameOwnerCb(w, HandlerContext(w))
  \/ \E w \in Clients : BusGetNameOwner(w)

SpecLocked == LockedInit /\ [][LockedNext]_vars

\* The registrar: several processes register and destroy applications on one
\* session bus.  No watcher exists.
AppSpecInit ==
  /\ Init
  /\ bus_owner = NoOwner
  /\ dispatcher = [completions |-> "caller", worker |-> "default"]

AppNext ==
  \/ \E p \in Procs, appid \in AppIds, flags \in Flags,
        bus_ok \in BOOLEAN, export_ok \in BOOLEAN, last_ref \in BOOLEAN :
       Register(p, appid, flags, bus_ok, export_ok, last_ref)
  \/ \E p \in Procs, ok \in BOOLEAN : RequestName(p, ok)
  \/ \E p \in Procs, last_ref \in BOOLEAN : RegisterReply(p, last_ref)
  \/ \E p \in Procs, last_ref \in BOOLEAN : Destroy(p, last_ref)

SpecApp == AppSpecInit /\ [][AppNext]_vars

\* what the bus daemon and the main loops do on their own: answer calls, dispatch
\* completions and signals, run idle sources
Delivery ==
  \/ \E w \in Clients, conn \in {NULL, TheConnection} :
       ConnectionGetCb(w, conn, HandlerContext(w))
  \/ \E w \in Clients : StartServiceByNameCb(w, HandlerContext(w))
  \/ \E w \in Clients : GetNameOwnerCb(w, HandlerContext(w))
  \/ \E w \in Clients : NameOwnerChanged(w, HandlerContext(w))
  \/ \E w \in Clients : ConnectionDisconnected(w, ClosedContext)
  \/ \E ctx \in Contexts : CallInIdleCb(ctx)
  \/ \E w \in Clients : BusGetNameOwner(w)
  \/ \E w \in Clients, code \in 0 .. 3, o \in Owners : BusStartServiceByName(w, code, o)

\* fair delivery of the bus's replies and signals, fair running of the main
\* contexts: the bus and the main loops do not stop while they have work
FairSpec == Spec /\ WF_vars(Delivery)

\* The dispatcher and the command-line round trip: process 1 has registered and
\* is the primary instance, process 2 has registered and is remote, any other
\* process has not registered.  The remote instance sends Activate, Open and
\* CommandLine; the primary's main loop dispatches them.  No watcher exists.
TheAppId == CHOOSE n \in AppIds : TRUE

RegisteredImpl(object_id) ==
  [allocated |-> TRUE, bus_name |-> TheAppId, session_bus |-> TheConnection,
   object_path |-> application_path_from_appid(TheAppId), object_id |-> object_id]

DispatchInit ==
  /\ WatcherInit
  /\ bus_owner = NoOwner
  /\ dispatcher = [completions |-> "caller", worker |-> "default"]
  /\ impl = [p \in Procs |-> IF p = 1 THEN RegisteredImpl(1)
                              ELSE IF p = 2 THEN RegisteredImpl(0) ELSE NoImpl]
  /\ reg = [p \in Procs |-> NotRegistering]
  /\ ret = [p \in Procs |-> IF p = 1 THEN Return("impl", FALSE, "none", 1)
                             ELSE IF p = 2 THEN Return("impl", TRUE, "none", 3)
                             ELSE NoReturn]
  /\ connected = [p \in Procs |-> p \in {1, 2}]
  /\ exported = [p \in Procs |->
                   IF p = 1 THEN {application_path_from_appid(TheAppId)} ELSE {}]
  /\ bus_names = [n \in AppIds |-> IF n = TheAppId THEN 1 ELSE NoProc]
  /\ CmdlineInit({1, 2})
  /\ LockInit({})

DispatchNext ==
  \/ \E p \in Apps : Activate(p)
  \/ \E p \in Apps : Open(p)
  \/ \E p \in Apps : CommandLine(p)
  \/ \E p \in Apps, prints \in PrintSeqs, status \in Statuses, hold \in BOOLEAN :
       Dispatch(p, prints, status, hold)
  \/ \E p \in Apps, call \in Calls, sink \in Sinks : LatePrint(p, call, sink)
  \/ \E p \in Apps, call \in Calls : Release(p, call)
  \/ \E p \in Apps : CmdlineMethodCall(p)
  \/ \E p \in Apps, timed_out \in BOOLEAN : CmdlineDone(p, timed_out)

SpecDispatch == DispatchInit /\ [][DispatchNext]_vars

\* what the bus and the main loops do on their own in a round trip
DispatchDelivery ==
  \/ \E p \in Apps, prints \in PrintSeqs, status \in Statuses, hold \in BOOLEAN :
       Dispatch(p, prints, status, hold)
  \/ \E p \in Apps : CmdlineMethodCall(p)
  \/ \E p \in Apps, timed_out \in BOOLEAN : CmdlineDone(p, timed_out)

FairSpecDispatch == SpecDispatch /\ WF_vars(DispatchDelivery)

\* ----------------------------------------------------------------- claims
NumCalls(cs, call_type) ==
  Cardinality({i \in 1 .. Len(cs) : cs[i].call_type = call_type})

RECURSIVE NumQueuedIn(_, _, _, _)
NumQueuedIn(q, ctxs, w, call_type) ==
  IF ctxs = {} THEN 0
  ELSE LET ctx == CHOOSE x \in ctxs : TRUE
       IN  Cardinality({i \in 1 .. Len(q[ctx]) :
                          q[ctx][i].client = w /\ q[ctx][i].call_type = call_type})
           + NumQueuedIn(q, ctxs \ {ctx}, w, call_type)

\* deliveries of one kind made for w so far: invoked, or queued as idle sources
NumDelivered(cs, q, w, call_type) ==
  NumCalls(cs[w], call_type) + NumQueuedIn(q, Contexts, w, call_type)

QueuedFor(w) ==
  {d \in UNION {{idle[ctx][i] : i \in 1 .. Len(idle[ctx])} : ctx \in Contexts} :
     d.client = w}

Invoked(w) == {calls[w][i] : i \in 1 .. Len(calls[w])}

\* C1: the handler invocations delivered to a watcher alternate between
\* name_appeared_handler and name_vanished_handler: no two consecutive
\* invocations are of the same kind.
C1_Alternation ==
  \A w \in Clients : \A i \in 1 .. (Len(calls[w]) - 1) :
    calls[w][i].call_type /= calls[w][i + 1].call_type

\* a watcher whose deliveries went through the idle queue saw Appeared, Vanished
\* and Appeared again
C1_Witness ==
  \E w \in Clients :
    /\ Len(calls[w]) >= 3
    /\ calls[w][1].call_type = CALL_TYPE_NAME_APPEARED
    /\ \A i \in 1 .. Len(calls[w]) : calls[w][i].via = "idle"

CancelledUndecided(w) == client[w].cancelled /\ decided[w] = 0

DisconnectStep(w) ==
  /\ IsLive(w) /\ client[w].connection /= NULL
  /\ client'[w].status = "live" /\ client'[w].connection = NULL

C4_NoAppearedOnceCancelled ==
  \A w \in Clients : \A c \in Invoked(w) :
    c.call_type = CALL_TYPE_NAME_APPEARED => ~c.cancelled

\* C4 amended: no Appeared is decided once the cancelled flag is set: every
\* Appeared that is invoked or queued was decided while the flag was clear (one
\* queued before the cancellation is still invoked).
C4_NoAppearedDecidedOnceCancelled ==
  \A w \in Clients : \A c \in Invoked(w) \cup QueuedFor(w) :
    c.call_type = CALL_TYPE_NAME_APPEARED => ~c.decided_cancelled

\* a cancelled watcher learnt of an owner, and no Appeared was made for it
C4_Witness ==
  \E w \in Clients :
    /\ IsLive(w) /\ client[w].cancelled
    /\ client[w].previous_call = PREVIOUS_CALL_APPEARED
    /\ client[w].name_owner /= NULL
    /\ \A c \in Invoked(w) \cup QueuedFor(w) : c.call_type = CALL_TYPE_NAME_VANISHED
    /\ Invoked(w) \cup QueuedFor(w) /= {}

\* C5: every handler invocation runs on the context captured at registration; a
\* delivery decided on that context is invoked inline, one decided on another
\* context is queued on the captured context and invoked from its idle source.
C5_CapturedContext ==
  /\ \A w \in Clients : \A c \in Invoked(w) :
       /\ c.ctx = c.main_context
       /\ c.via = (IF c.decided_on = c.main_context THEN "inline" ELSE "idle")
  /\ \A ctx \in Contexts : \A i \in 1 .. Len(idle[ctx]) :
       /\ client[idle[ctx][i].client].main_context = ctx
       /\ idle[ctx][i].decided_on /= ctx

C5_Witness ==
  \E w \in Clients :
    /\ client[w].main_context = "pushed"
    /\ \E c \in Invoked(w) : c.via = "inline"
    /\ \E c \in Invoked(w) : c.via = "idle"

\* ---------------------------------------------------------------- registry
\* what an unwatch with an id the registry does not hold may touch: nothing but
\* the log
OnlyLogged ==
  /\ logged' \in {"warning", "critical"}
  /\ UNCHANGED <<client, next_global_id, map_id_to_client, idle, pending, inbox,
                 calls, decided>>

\* what an unwatch of a registered id does to the registry: the id is gone, every
\* other entry and next_global_id stay, every other watcher stays as it was
Removed(id) ==
  /\ map_id_to_client'[id] = NoClient
  /\ \A j \in Ids \ {id} : map_id_to_client'[j] = map_id_to_client[j]
  /\ \A v \in Clients \ {map_id_to_client[id]} : client'[v] = client[v]
  /\ UNCHANGED <<next_global_id, logged>>

\* C6 as claimed: for every id a watch call returned and the registry still holds,
\* g_bus_unwatch_name(id) removes the id before it returns; g_bus_unwatch_name of
\* an id the registry does not hold (a second unwatch, an id never returned) only
\* logs and leaves registry, next_global_id and every watcher unchanged.
C6_UnwatchRemovesReturnedId ==
  [][\A id \in Ids :
       g_bus_unwatch_name(id) =>
         IF map_id_to_client[id] /= NoClient THEN Removed(id) ELSE OnlyLogged]_vars

\* C6 for the ids other than 0: a registered id other than 0 is removed, an
\* unregistered one only logs a warning.
C6_UnwatchRemovesNonzeroId ==
  [][\A id \in Ids \ {0} :
       g_bus_unwatch_name(id) =>
         IF map_id_to_client[id] /= NoClient THEN Removed(id)
         ELSE logged' = "warning" /\ OnlyLogged]_vars

\* a watch call has returned 0 after next_global_id wrapped around, and the
\* watcher it registered is in the registry under 0
C6_ZeroRegistered ==
  /\ map_id_to_client[0] /= NoClient
  /\ IsLive(map_id_to_client[0])

\* C7 as claimed: the id a watch call returned is never 0 and is the id of no
\* other watcher still present in the registry: every watcher that was not
\* unwatched has an id other than 0 under which the registry holds that watcher.
C7_IdsNonZeroAndDistinct ==
  \A w \in Clients :
    (IsLive(w) /\ ~client[w].cancelled) =>
      /\ client[w].id /= 0
      /\ map_id_to_client[client[w].id] = w

\* the part of C7 about distinctness alone
C7_IdsDistinct ==
  \A w \in Clients :
    (IsLive(w) /\ ~client[w].cancelled) => map_id_to_client[client[w].id] = w

\* --------------------------------------------------------------- registrar
\* the process holds a registration: g_application_impl_register returned a
\* GApplicationImpl that was not destroyed since
Registered(p) == impl[p].allocated /\ reg[p].pc = "idle"

Primary(p) == Registered(p) /\ ~ret[p].is_remote

\* the step in which g_application_impl_register of process p returns after
\* RequestName was answered by the bus daemon
ReturnsAfterReply(p) ==
  /\ reg[p].pc = "replied" /\ reg'[p].pc = "idle"
  /\ reg[p].reply.ok

\* C8: a process that holds a registration with is_remote = false owns the bus
\* name for as long as it holds it, every other process that holds a registration
\* for that id holds one with is_remote = true (so at most one process is
\* primary), and a g_application_impl_register of another process that returns
\* while a primary exists yields is_remote = true.
C8_OnePrimaryOwnsName ==
  /\ [](\A p \in Procs :
          Primary(p) =>
            /\ bus_names[impl[p].bus_name] = p
            /\ \A q \in Procs \ {p} :
                 (Registered(q) /\ impl[q].bus_name = impl[p].bus_name)
                 => ret[q].is_remote)
  /\ [][\A p \in Procs, q \in Procs :
          (p /= q /\ Primary(p) /\ ReturnsAfterReply(q)
           /\ reg[q].appid = impl[p].bus_name)
          => ret'[q].is_remote]_vars

\* one process is primary and another registered after it as remote
C8_Witness ==
  \E p \in Procs, q \in Procs :
    /\ p /= q /\ Primary(p) /\ Registered(q)
    /\ impl[q].bus_name = impl[p].bus_name
    /\ ret[q].is_remote /\ ret[q].rval = 3

C10_NameExists ==
  [][\A p \in Procs :
       (ReturnsAfterReply(p) /\ reg[p].reply.value = 3) =>
         /\ impl[p].object_path \notin exported'[p]
         /\ ret'[p].is_remote /\ ret'[p].rval = 3
         /\ IF G_APPLICATION_IS_SERVICE \in reg[p].flags
            THEN /\ ret'[p].returned = "NULL"
                 /\ ret'[p].error = "Unable to acquire bus name"
                 /\ impl'[p] = NoImpl
            ELSE /\ ret'[p].returned = "impl" /\ ret'[p].error = "none"
                 /\ impl'[p].allocated /\ impl'[p].object_id = 0]_vars

\* a service was refused because another process owns the name
C10_Witness ==
  \E p \in Procs, q \in Procs :
    /\ p /= q /\ Primary(q)
    /\ ret[p].rval = 3 /\ ret[p].returned = "NULL"
    /\ ret[p].error = "Unable to acquire bus name"

\* the bus daemon has answered 3 to the RequestName of process p, whose
\* g_application_impl_register has not returned yet: the registration will be
\* remote
BecomingRemote(p) ==
  /\ reg[p].pc = "replied" /\ reg[p].reply.ok
  /\ reg[p].reply.value = 3

\* C11 as claimed: a process whose registration ends up remote never has the
\* dispatcher published at the derived object path, not even between the start
\* of g_application_impl_register and its return.
C11_RemoteNeverPublished ==
  \A p \in Procs :
    (BecomingRemote(p) \/ (Registered(p) /\ ret[p].is_remote))
    => impl[p].object_path \notin exported[p]

\* C11 amended: a process that holds a remote registration (the register has
\* returned with is_remote = true) has no dispatcher published and object_id 0;
\* while the register waits for the reply of RequestName the dispatcher is
\* published.
C11_RemoteUnpublishedOnReturn ==
  /\ \A p \in Procs :
       (Registered(p) /\ ret[p].is_remote)
       => (impl[p].object_id = 0 /\ impl[p].object_path \notin exported[p])
  /\ \A p \in Procs :
       reg[p].pc \in {"RequestName", "replied"}
       => (impl[p].object_id /= 0 /\ impl[p].object_path \in exported[p])

\* a process that is not a launcher holds a remote registration
C11_Witness ==
  \E p \in Procs :
    /\ Registered(p) /\ ret[p].is_remote /\ ret[p].rval = 3
    /\ exported[p] = {}

\* C12: while a process holds a registration, object_id is non-zero exactly when
\* the dispatcher is published at the derived path; a registration made with
\* reply 1 has is_remote = false and the dispatcher published; and
\* g_application_impl_destroy leaves the dispatcher unpublished, also when the
\* connection outlives the registration.
C12_ObjectIdIffPublished ==
  /\ [](\A p \in Procs :
          Registered(p) =>
            /\ impl[p].object_path = application_path_from_appid(impl[p].bus_name)
            /\ (impl[p].object_id /= 0) <=> (impl[p].object_path \in exported[p])
            /\ ret[p].rval = 1 =>
                 (~ret[p].is_remote /\ impl[p].object_path \in exported[p]))
  /\ [][\A p \in Procs :
          (Registered(p) /\ ~impl'[p].allocated)
          => impl[p].object_path \notin exported'[p]]_vars

\* a primary registered with reply 1 was destroyed and its connection is still
\* open
C12_Witness ==
  \E p \in Procs :
    /\ ~impl[p].allocated /\ reg[p].pc = "idle"
    /\ ret[p].rval = 1 /\ ret[p].returned = "impl"
    /\ connected[p] /\ bus_names[<<"a", ".", "b">>] = p

\* C13: a g_application_impl_register with G_APPLICATION_IS_LAUNCHER publishes
\* nothing, sends no RequestName and leaves the ownership of the name alone; when
\* it gets the session bus it returns a registration with is_remote = true and
\* object_id = 0, whoever owns the name.
C13_LauncherAsksNobody ==
  [][\A p \in Procs, appid \in AppIds, flags \in Flags, bus_ok \in BOOLEAN :
       (G_APPLICATION_IS_LAUNCHER \in flags
        /\ Register(p, appid, flags, bus_ok, TRUE, FALSE))
       => /\ exported' = exported /\ bus_names' = bus_names
          /\ reg'[p].pc = "idle"
          /\ (connected[p] \/ bus_ok) =>
               /\ ret'[p] = Return("impl", TRUE, "none", 0)
               /\ impl'[p].allocated /\ impl'[p].object_id = 0
               /\ impl'[p].object_path = application_path_from_appid(appid)]_vars

\* a launcher holds a registration while nobody owns the name
C13_Witness ==
  \E p \in Procs :
    /\ Registered(p) /\ ret[p].is_remote /\ ret[p].rval = 0
    /\ \A n \in AppIds : bus_names[n] = NoProc
    /\ \A q \in Procs : exported[q] = {}

\* ---- C14
\* the method calls dispatched to the application of p and the hooks and signals
\* it saw for them, in order
Methods == {"Activate", "Open", "CommandLine"}

Hooks == {"before_emit", "activate", "open", "command-line", "after_emit"}

HookTrace(p) == SelectSeq(trace[p], LAMBDA e : e.ev \in Methods \cup Hooks)

SignalOf(method) ==
  IF method = "Activate" THEN "activate"
  ELSE IF method = "Open" THEN "open" ELSE "command-line"

\* C14: for every Activate, Open and CommandLine call the primary handles, the
\* application sees before_emit, then the signal of that method, then after_emit,
\* each once and for that call, and the next call's hooks begin only after them.
C14_HooksAroundSignal ==
  \A p \in Apps :
    LET h == HookTrace(p)
    IN  /\ Len(h) % 4 = 0
        /\ \A k \in 0 .. (Len(h) \div 4) - 1 :
             /\ h[4 * k + 1].ev \in Methods
             /\ h[4 * k + 2].ev = "before_emit"
             /\ h[4 * k + 3].ev = SignalOf(h[4 * k + 1].ev)
             /\ h[4 * k + 4].ev = "after_emit"
             /\ \A i \in 2 .. 4 : h[4 * k + i].call = h[4 * k + 1].call
        /\ \A j, k \in 0 .. (Len(h) \div 4) - 1 :
             h[4 * j + 1].call = h[4 * k + 1].call => j = k

\* the primary has handled a CommandLine call and another call after it
C14_Witness ==
  \E p \in Apps :
    /\ Len(HookTrace(p)) = 8
    /\ HookTrace(p)[1].ev = "CommandLine"
    /\ HookTrace(p)[5].ev \in {"Activate", "Open"}

\* ---- C15
\* the places of the events of one kind for one call in the trace of p
Places(p, evs, call) ==
  {i \in 1 .. Len(trace[p]) : trace[p][i].ev \in evs /\ trace[p][i].call = call}

\* the calls of the given methods dispatched to the application of p
Dispatched(p, methods) ==
  {trace[p][i].call : i \in {j \in 1 .. Len(trace[p]) : trace[p][j].ev \in methods}}

\* C15: a CommandLine invocation gets no reply while its channel exists and one
\* reply once the channel is destroyed; the reply comes after the command-line
\* handler and after_emit returned and carries the status the handler returned;
\* an Activate or Open invocation gets no reply.
C15_OneReplyAfterHandler ==
  \A p \in Apps :
    /\ \A call \in Dispatched(p, {"CommandLine"}) :
         LET replies == Places(p, {"reply"}, call)
         IN  /\ Cardinality(replies) = IF HasChannel(p, call) THEN 0 ELSE 1
             /\ \A i \in replies :
                  /\ \E j \in Places(p, {"after_emit"}, call) : j < i
                  /\ \E j \in Places(p, {"command-line"}, call) :
                       j < i /\ trace[p][i].value = trace[p][j].value
    /\ \A call \in Dispatched(p, {"Activate", "Open"}) :
         Places(p, {"reply"}, call) = {}

\* a channel the handler kept was printed to and then destroyed: the reply with
\* the handler's status 2 follows the late message; another call got its reply
\* from within the dispatcher
C15_Witness ==
  \E p \in Apps : \E i \in 2 .. Len(trace[p]) :
    /\ trace[p][i].ev = "reply" /\ trace[p][i].value = 2
    /\ trace[p][i - 1].ev = "print_literal"
    /\ trace[p][i - 2].ev = "after_emit"
    /\ Dispatched(p, {"Activate", "Open"}) /= {}

\* ---- C16
\* the place i of the trace of p holds the return of a round trip that ended with
\* an error of the CommandLine call
EndedWithError(p, i) ==
  /\ i > 1
  /\ trace[p][i - 1] = Event("stderr", trace[p][i].call, ErrorMessage)

\* the status the command-line handler of some primary returned for a call
HandlerReturned(call, status) ==
  \E q \in Apps : \E j \in 1 .. Len(trace[q]) :
    trace[q][j] = Event("command-line", call, status)

ReturnsStatusOrOne ==
  \A p \in Apps : \A i \in 1 .. Len(trace[p]) :
    trace[p][i].ev = "return" =>
      IF EndedWithError(p, i) THEN trace[p][i].value = 1
      ELSE HandlerReturned(trace[p][i].call, trace[p][i].value)

\* C16: a g_application_impl_command_line that has sent its CommandLine call
\* returns eventually (its private loop ends), under fair delivery and fair
\* running of the loops; it returns the status the primary's handler returned
\* when the call got a reply, and 1 when the call ended with an error.
C16_ReturnsStatus ==
  /\ []ReturnsStatusOrOne
  /\ (\E p \in Apps : round[p].pc = "loop")
       ~> (\A p \in Apps : round[p].pc /= "loop")

\* a round trip returned 2, the status of the primary's handler
C16_Witness ==
  \E p \in Apps : \E i \in 1 .. Len(trace[p]) :
    /\ trace[p][i].ev = "return" /\ trace[p][i].value = 2
    /\ ~EndedWithError(p, i)
    /\ HandlerReturned(trace[p][i].call, 2)

\* ---- C17
\* the messages of the events of one kind in a trace, in order
MessagesOf(tr, ev) ==
  LET sel == SelectSeq(tr, LAMBDA e : e.ev = ev /\ e.value /= ErrorMessage)
  IN  [k \in 1 .. Len(sel) |-> sel[k].value]

\* the messages printed through the channel of a call by any primary
IssuedFor(call, ev) ==
  LET q == CHOOSE q \in Apps : call \in Dispatched(q, {"CommandLine"})
  IN  MessagesOf(SelectSeq(trace[q], LAMBDA e : e.call = call), ev)

\* the return at place i of the trace of p ended a round trip with the reply
ReturnedWithReply(p, i) ==
  /\ trace[p][i].ev = "return"
  /\ ~EndedWithError(p, i)

\* C17: when a round trip returns with the reply of its CommandLine call, the
\* remote has written to stdout the messages the primary printed through the
\* channel with print_literal, and to stderr those printed with
\* printerr_literal, all of them and in the order printed.
C17_PrintsWrittenBeforeReturn ==
  \A p \in Apps : \A i \in 1 .. Len(trace[p]) :
    ReturnedWithReply(p, i) =>
      LET before == SubSeq(trace[p], 1, i - 1)
      IN  /\ MessagesOf(before, "stdout") = IssuedFor(trace[p][i].call, "print_literal")
          /\ MessagesOf(before, "stderr")
               = IssuedFor(trace[p][i].call, "printerr_literal")

\* a round trip returned with the reply after writing a message to stderr and
\* then one to stdout
C17_Witness ==
  \E p \in Apps : \E i \in 1 .. Len(trace[p]) :
    /\ ReturnedWithReply(p, i)
    /\ MessagesOf(SubSeq(trace[p], 1, i - 1), "stderr") = <<1>>
    /\ MessagesOf(SubSeq(trace[p], 1, i - 1), "stdout") = <<2>>

\* ---- C18
\* a round trip of p has returned and none is running
HasReturned(p) ==
  /\ round[p].pc = "idle"
  /\ \E i \in 1 .. Len(trace[p]) : trace[p][i].ev = "return"

\* C18: when g_application_impl_command_line has returned, its object is no
\* longer exported at /org/gtk/Application/CommandLine, and a later
\* g_application_impl_command_line on the same registration exports there again
\* (it does not stop at its assertion).
C18_ExportTornDownOnReturn ==
  \A p \in Apps :
    /\ HasReturned(p) => CommandLinePath \notin exported[p]
    /\ round[p].pc /= "aborted"

\* after a round trip that returned, a second g_application_impl_command_line
\* of the same process found the path taken and stopped at g_assert
C18_SecondCallAborts ==
  \E p \in Apps :
    /\ round[p].pc = "aborted"
    /\ \E i \in 1 .. Len(trace[p]) : trace[p][i].ev = "return"
    /\ CommandLinePath \in exported[p]

\* ---- C19
\* on_name_owner_changed runs for w on a signal it has to leave alone: the
\* watcher is not initialized, or the signal is not the bus daemon's
\* NameOwnerChanged about the watched name
SignalToIgnore(w) ==
  \/ /\ ~client[w].initialized
     /\ NameOwnerChanged(w, HandlerContext(w))
  \/ \E match \in BOOLEAN, name_ok \in BOOLEAN, owners \in OtherOwners :
       OtherNameOwnerChanged(w, match, name_ok, owners, HandlerContext(w))

\* C19: a NameOwnerChanged signal handled while the watcher is not initialized,
\* or one whose sender, path, interface or name are not the expected ones,
\* changes nothing of the watcher (name_owner and previous_call included) and
\* no handler is invoked or queued.
C19_SignalIgnored ==
  [][\A w \in Clients :
       SignalToIgnore(w) =>
         /\ client' = client
         /\ calls' = calls /\ idle' = idle /\ decided' = decided
         /\ pending' = pending]_vars

\* a watcher asked the bus to start the service; the bus did, sent the signal
\* about the new owner and then its answer; the watcher has handled the signal
\* and the answer is next
C19_Witness ==
  \E w \in Clients :
    /\ IsLive(w) /\ ~client[w].initialized
    /\ client[w].name_owner_changed_subscription_id > 0
    /\ inbox[w] = <<Reply("StartServiceByName", Result(TRUE, 1))>>
    /\ bus_owner /= NoOwner
    /\ client[w].name_owner = NULL
    /\ client[w].previous_call = PREVIOUS_CALL_NONE
    /\ calls[w] = <<>> /\ decided[w] = 0

\* ---- C20
\* the kind of the k-th delivery decided for w: invoked (cs) or queued as an idle
\* source (q)
DecidedTypes(cs, q, w, k) ==
  {cs[w][i].call_type : i \in {j \in 1 .. Len(cs[w]) : cs[w][j].seq = k}}
  \cup UNION {{q[ctx][i].call_type :
                 i \in {j \in 1 .. Len(q[ctx]) :
                          q[ctx][j].client = w /\ q[ctx][j].seq = k}} :
              ctx \in Contexts}

\* on_name_owner_changed runs for an initialized watcher that is not cancelled
OwnerChangedStep(w) ==
  /\ client[w].initialized /\ ~client[w].cancelled
  /\ NameOwnerChanged(w, HandlerContext(w))

\* the step delivers Vanished and then Appeared, only Vanished, only Appeared
DeliversBoth(w) ==
  /\ decided'[w] = decided[w] + 2
  /\ DecidedTypes(calls', idle', w, decided[w] + 1) = {CALL_TYPE_NAME_VANISHED}
  /\ DecidedTypes(calls', idle', w, decided[w] + 2) = {CALL_TYPE_NAME_APPEARED}

DeliversOnly(w, call_type) ==
  /\ decided'[w] = decided[w] + 1
  /\ DecidedTypes(calls', idle', w, decided[w] + 1) = {call_type}

StartServiceReplyStep(w) == StartServiceByNameCb(w, HandlerContext(w))

\* the step asks the bus for the owner: the call is pending, or it failed at once
\* on the closed connection
QueryIssued(w) ==
  \/ pending[w] /= "GetNameOwner" /\ pending'[w] = "GetNameOwner"
  \/ /\ inbox'[w] /= <<>>
     /\ Len(inbox'[w]) >= Len(inbox[w])
     /\ inbox'[w][Len(inbox'[w])] = Reply("GetNameOwner", Failed)

\* the reply is code 1, code 2 or an error
StartedOrError(res) == ~res.ok \/ res.value \in {1, 2}

\* has_connection runs for w: the watcher gets its connection
HasConnectionStep(w) ==
  /\ ~IsLive(w) \/ client[w].connection = NULL
  /\ client'[w].status = "live" /\ client'[w].connection /= NULL

\* the first call has_connection makes is StartServiceByName with AUTO_START and
\* GetNameOwner without
FirstCallFollowsFlag ==
  \A w \in Clients :
    HasConnectionStep(w) =>
      pending'[w] = (IF client'[w].auto_start THEN "StartServiceByName"
                     ELSE "GetNameOwner")

\* C21 as claimed: the owner query is issued after the StartServiceByName reply
\* exactly when the reply is code 1, code 2 or an error; for any other code no
\* query is issued, Vanished is delivered (unless the last callback was Vanished)
\* and the watcher becomes initialized.  Without AUTO_START the query is issued
\* once the connection is available.
C21_QueryIffStartedOrError ==
  [][/\ FirstCallFollowsFlag
     /\ \A w \in Clients :
          StartServiceReplyStep(w) =>
            LET res == Head(inbox[w]).result
            IN  /\ QueryIssued(w) <=> StartedOrError(res)
                /\ ~StartedOrError(res) =>
                     /\ client'[w].initialized
                     /\ NumDelivered(calls', idle', w, CALL_TYPE_NAME_VANISHED)
                          = NumDelivered(calls, idle, w, CALL_TYPE_NAME_VANISHED)
                            + (IF client[w].previous_call = PREVIOUS_CALL_VANISHED
                               THEN 0 ELSE 1)]_vars

\* C21 amended: for a watcher that still has its connection, the owner query is
\* issued after the StartServiceByName reply exactly when the reply is code 1,
\* code 2 or an error; for any other code no query is issued, previous_call
\* becomes Vanished, a Vanished is delivered unless the last callback was
\* Vanished or the watcher is cancelled, and the watcher, if it is not freed by
\* the step, is initialized.  For a watcher whose connection was closed and
\* cleared before the reply completes, no query is issued whatever the reply,
\* nothing is delivered and initialized, previous_call and name_owner stay as
\* they are.  Once the connection is available the first call is
\* StartServiceByName with AUTO_START and GetNameOwner without.
C21_QueryIffStartedOrErrorWhileConnected ==
  [][/\ FirstCallFollowsFlag
     /\ \A w \in Clients :
          StartServiceReplyStep(w) =>
            LET res == Head(inbox[w]).result
            IN  IF client[w].connection /= NULL
                THEN /\ QueryIssued(w) <=> StartedOrError(res)
                     /\ ~StartedOrError(res) =>
                          /\ client'[w].status = "live" =>
                               /\ client'[w].initialized
                               /\ client'[w].previous_call = PREVIOUS_CALL_VANISHED
                          /\ NumDelivered(calls', idle', w, CALL_TYPE_NAME_VANISHED)
                               = NumDelivered(calls, idle, w, CALL_TYPE_NAME_VANISHED)
                                 + (IF client[w].previous_call = PREVIOUS_CALL_VANISHED
                                       \/ client[w].cancelled
                                    THEN 0 ELSE 1)
                ELSE /\ ~QueryIssued(w)
                     /\ calls' = calls /\ idle' = idle /\ decided' = decided
                     /\ client'[w].initialized = client[w].initialized
                     /\ client'[w].previous_call = client[w].previous_call
                     /\ client'[w].name_owner = client[w].name_owner]_vars

\* the bus answered StartServiceByName with a code that is neither 1 nor 2 while
\* the name had an owner: the watcher is initialized with a Vanished and never
\* asked who the owner is
C21_Witness ==
  \E w \in Clients :
    /\ IsLive(w) /\ client[w].auto_start /\ client[w].initialized
    /\ ~closed /\ client[w].connection /= NULL
    /\ bus_owner /= NoOwner /\ changes = 0
    /\ pending[w] = "none" /\ inbox[w] = <<>>
    /\ client[w].name_owner = NULL
    /\ Len(calls[w]) = 1 /\ calls[w][1].call_type = CALL_TYPE_NAME_VANISHED

\* ---- C22
\* connection_get_cb runs for w after g_bus_get failed
AcquisitionFailsStep(w) == ConnectionGetCb(w, NULL, HandlerContext(w))

\* w has no connection and nothing on its way: no call the bus has to answer, no
\* reply or signal to handle
Unconnected(w) ==
  /\ IsLive(w) /\ client[w].connection = NULL
  /\ pending[w] = "none" /\ inbox[w] = <<>>

\* no subscription and no call was made for w, and nothing waits for it
NothingStarted(w) ==
  /\ client'[w].name_owner_changed_subscription_id = 0
  /\ client'[w].disconnected_signal_handler_id = 0
  /\ pending'[w] = "none" /\ inbox'[w] = <<>>

\* a watcher without connection stays so and no delivery is decided for it
StaysUnconnected(w) ==
  Unconnected(w) =>
    /\ decided'[w] = decided[w]
    /\ client'[w].connection = NULL
    /\ NothingStarted(w)

\* C22 as claimed: when bus acquisition fails, Vanished is delivered once, the
\* watcher becomes initialized and is terminal: no subscription, no bus call and
\* no further delivery.
C22_FailedAcquisitionInitializes ==
  [][\A w \in Clients :
       /\ AcquisitionFailsStep(w) =>
            /\ decided'[w] = decided[w] + 1
            /\ client'[w].initialized
            /\ NothingStarted(w)
       /\ StaysUnconnected(w)]_vars

\* C22 amended: when bus acquisition fails, previous_call becomes Vanished and
\* Vanished is delivered once unless the watcher is cancelled (then nothing is
\* delivered); initialized stays false; the watcher is terminal: no subscription
\* is made, no bus call is issued and no further delivery is ever decided for it.
C22_FailedAcquisitionTerminal ==
  [][\A w \in Clients :
       /\ AcquisitionFailsStep(w) =>
            /\ decided'[w] = decided[w] + (IF client[w].cancelled THEN 0 ELSE 1)
            /\ NumDelivered(calls', idle', w, CALL_TYPE_NAME_VANISHED)
                 = IF client[w].cancelled THEN 0 ELSE 1
            /\ NumDelivered(calls', idle', w, CALL_TYPE_NAME_APPEARED) = 0
            /\ client'[w].status = "live" =>
                 /\ ~client'[w].initialized
                 /\ client'[w].previous_call = PREVIOUS_CALL_VANISHED
            /\ NothingStarted(w)
       /\ StaysUnconnected(w)]_vars

\* the name has an owner and the connection of the process is open, but g_bus_get
\* failed for the watcher: it was told Vanished, once, and is not initialized
C22_Witness ==
  \E w \in Clients :
    /\ Unconnected(w) /\ ~closed /\ bus_owner /= NoOwner
    /\ ~client[w].initialized /\ ~client[w].cancelled
    /\ decided[w] = 1 /\ Len(calls[w]) = 1
    /\ calls[w][1].call_type = CALL_TYPE_NAME_VANISHED
    /\ calls[w][1].connection = NULL
    /\ changes = MaxChanges

\* ---- C23
\* on_connection_disconnected has run for w: it had a connection and has none now
Disconnected(w) ==
  /\ IsLive(w) /\ closed /\ client[w].connection = NULL
  /\ pending[w] /= "g_bus_get"

\* what no step changes of a disconnected watcher that stays allocated
KeepsDisconnectedState(w) ==
  client'[w].status = "live" =>
    /\ client'[w].connection = NULL
    /\ client'[w].name_owner_changed_subscription_id = 0
    /\ client'[w].disconnected_signal_handler_id = 0
    /\ client'[w].previous_call = client[w].previous_call
    /\ client'[w].name_owner = client[w].name_owner

\* only g_bus_unwatch_name, which sets cancelled, takes w out of the registry
LeavesRegistryByUnwatch(w) ==
  (map_id_to_client[client[w].id] = w /\ map_id_to_client'[client[w].id] /= w)
    => (~client[w].cancelled
        /\ (client'[w].status = "freed" \/ client'[w].cancelled))

\* C23 as claimed: after the connection of a watcher was closed the watcher has
\* no subscription, no closed handler and no connection; initialized,
\* previous_call, name_owner and connection never change again whatever replies
\* complete; no Appeared is delivered; the watcher stays registered until
\* g_bus_unwatch_name removes it.
C23_NothingChangesAfterClosure ==
  [][\A w \in Clients :
       /\ DisconnectStep(w) =>
            /\ client'[w].name_owner_changed_subscription_id = 0
            /\ client'[w].disconnected_signal_handler_id = 0
       /\ Disconnected(w) =>
            /\ KeepsDisconnectedState(w)
            /\ client'[w].status = "live" =>
                 client'[w].initialized = client[w].initialized
            /\ decided'[w] = decided[w]
            /\ LeavesRegistryByUnwatch(w)]_vars

\* C23 amended: after on_connection_disconnected has run the watcher has no
\* subscription, no closed handler and no connection; previous_call, name_owner
\* and connection never change again whatever replies complete; initialized
\* changes at most once, from false to true, when the reply of a GetNameOwner
\* call made before the closure completes; no delivery, Appeared or Vanished, is
\* decided afterwards (one queued before is still invoked); the watcher stays
\* registered until g_bus_unwatch_name removes it.
C23_OnlyInitializedChangesAfterClosure ==
  [][\A w \in Clients :
       /\ DisconnectStep(w) =>
            /\ client'[w].name_owner_changed_subscription_id = 0
            /\ client'[w].disconnected_signal_handler_id = 0
       /\ Disconnected(w) =>
            /\ KeepsDisconnectedState(w)
            /\ (client'[w].status = "live"
                 /\ client'[w].initialized /= client[w].initialized) =>
                 /\ client'[w].initialized
                 /\ GetNameOwnerCb(w, HandlerContext(w))
            /\ decided'[w] = decided[w]
            /\ LeavesRegistryByUnwatch(w)]_vars

\* the connection closed while GetNameOwner was pending; the closed handler ran
\* first and delivered the only Vanished, then the failed reply completed and set
\* initialized
C23_Witness ==
  \E w \in Clients :
    /\ Disconnected(w) /\ ~client[w].cancelled
    /\ client[w].initialized
    /\ inbox[w] = <<>> /\ pending[w] = "none"
    /\ decided[w] = 1 /\ Len(calls[w]) = 1
    /\ calls[w][1].call_type = CALL_TYPE_NAME_VANISHED
    /\ calls[w][1].connection = NULL

\* ---- C24
\* the step is one of the thread that holds the lock
HolderStep == lock /= NoThread /\ thread'[lock] /= thread[lock]

\* name_appeared_handler or name_vanished_handler is invoked for w
HandlerInvoked(w) == IsLive(w) /\ Len(calls'[w]) > Len(calls[w])

\* the last reference of w goes: client_unref invokes user_data_free_func
UserDataFreed(w) == IsLive(w) /\ client'[w].status = "freed"

\* w was inserted in the registry, and perhaps removed since
WasInserted(w) == map_id_to_client[client[w].id] = w \/ client[w].cancelled

\* C24: no user-supplied callback (name_appeared_handler, name_vanished_handler,
\* user_data_free_func) is invoked by a thread that holds the registry lock, in
\* any interleaving of watch, unwatch and deliveries; a handler is invoked for a
\* watcher only after its insertion in the registry was complete, and
\* user_data_free_func only after its removal was.
C24_NoCallbackUnderLock ==
  [][\A w \in Clients :
       /\ HandlerInvoked(w) => (~HolderStep /\ WasInserted(w))
       /\ UserDataFreed(w) =>
            /\ ~HolderStep
            /\ \A id \in Ids : map_id_to_client[id] /= w]_vars

\* while a thread holds the lock, one watcher has had a handler invoked and
\* another, that had one invoked too, was freed by g_bus_unwatch_name
C24_Witness ==
  \E w \in Clients, v \in Clients :
    /\ lock /= NoThread
    /\ client[w].status = "freed" /\ Len(calls[w]) > 0
    /\ IsLive(v) /\ Len(calls[v]) > 0

\* ---- C25
\* the step starts a bus operation for w: an asynchronous call (g_bus_get,
\* StartServiceByName, GetNameOwner) or the NameOwnerChanged subscription
BusOperationStarted(w) ==
  \/ pending'[w] /= "none" /\ pending'[w] /= pending[w]
  \/ /\ client'[w].name_owner_changed_subscription_id > 0
     /\ ~IsLive(w) \/ client[w].name_owner_changed_subscription_id = 0

\* ids are allocated and the registry changed by the holder of the lock only
RegistryUnderLock ==
  (next_global_id' /= next_global_id \/ map_id_to_client' /= map_id_to_client)
    => HolderStep

\* C25 as claimed: the lock is held only across id allocation and registry
\* insert/remove; no bus operation (bus acquisition, subscription,
\* StartServiceByName, GetNameOwner) is started while it is held.
C25_NoBusOperationUnderLock ==
  [][/\ RegistryUnderLock
     /\ HolderStep => \A w \in Clients : ~BusOperationStarted(w)]_vars

\* C25 amended: ids are allocated and the registry changed under the lock; the
\* only bus operation started while it is held is the asynchronous bus
\* acquisition (g_bus_get) of g_bus_watch_name, which is called before G_UNLOCK;
\* no subscription, StartServiceByName or GetNameOwner is started under the lock,
\* and g_bus_watch_name_on_connection and g_bus_unwatch_name start no bus
\* operation while they hold it.
C25_OnlyAcquisitionUnderLock ==
  [][/\ RegistryUnderLock
     /\ HolderStep =>
          \A w \in Clients :
            BusOperationStarted(w) =>
              /\ thread[lock].op = G_BUS_WATCH_NAME
              /\ pending'[w] = "g_bus_get"
              /\ client'[w].name_owner_changed_subscription_id = 0]_vars

\* a thread in g_bus_watch_name has started g_bus_get and still holds the lock,
\* while the watcher another thread registered with
\* g_bus_watch_name_on_connection waits for the answer to GetNameOwner
C25_Witness ==
  \E t \in DOMAIN thread, v \in Clients :
    /\ lock = t /\ Running(t, G_BUS_WATCH_NAME, "G_UNLOCK")
    /\ pending[thread[t].client] = "g_bus_get"
    /\ v /= thread[t].client /\ IsLive(v)
    /\ client[v].connection /= NULL /\ pending[v] = "GetNameOwner"

\* ---- C26
\* the idle sources queued for w on ctx, in the order of the queue
QueuedOn(ctx, w) == SelectSeq(idle[ctx], LAMBDA d : d.client = w)

Increasing(q) == \A i \in 1 .. Len(q) : \A j \in (i + 1) .. Len(q) : q[i].seq < q[j].seq

\* C26: for each watcher the handlers are invoked in the order in which their
\* deliveries were decided: the invocations made so far are in the order of
\* decision, every delivery still queued was decided after every one invoked, and
\* the queue of the captured context holds them in the order of decision;
\* whether the deliveries are invoked inline or from idle sources.
C26_InvokedInOrderOfDecision ==
  \A w \in Clients :
    /\ Increasing(calls[w])
    /\ \A ctx \in Contexts :
         /\ Increasing(QueuedOn(ctx, w))
         /\ \A i \in 1 .. Len(calls[w]) : \A j \in 1 .. Len(QueuedOn(ctx, w)) :
              calls[w][i].seq < QueuedOn(ctx, w)[j].seq

\* a watcher had its first delivery invoked inline, on the captured context, and
\* its second, decided on another context, from an idle source
C26_Witness ==
  \E w \in Clients :
    /\ Len(calls[w]) = 2
    /\ calls[w][1].via = "inline" /\ calls[w][1].seq = 1
    /\ calls[w][2].via = "idle" /\ calls[w][2].seq = 2

\* ---- C27
\* the deliveries made for w, invoked (cs) or queued (q), that were decided after
\* the first k
DecidedAfter(cs, q, w, k) ==
  {d \in {cs[w][i] : i \in 1 .. Len(cs[w])}
         \cup UNION {{q[ctx][i] : i \in {j \in 1 .. Len(q[ctx]) : q[ctx][j].client = w}} :
                     ctx \in Contexts} :
     d.seq > k}

\* every Appeared, invoked or queued, carries an owner and the connection
AppearedCarriesOwner ==
  \A w \in Clients : \A d \in DecidedAfter(calls, idle, w, 0) :
    d.call_type = CALL_TYPE_NAME_APPEARED =>
      (d.name_owner \in Owners /\ d.connection = TheConnection)

\* a delivery decided in the step carries the connection the watcher has then,
\* and an Appeared the name_owner it has then
CarriesValuesOfDecision(w) ==
  \A d \in DecidedAfter(calls', idle', w, decided[w]) :
    /\ d.connection = client'[w].connection
    /\ d.call_type = CALL_TYPE_NAME_APPEARED => d.name_owner = client'[w].name_owner

\* an idle source hands the handler what it has carried since it was queued
InvokesWithSnapshot(ctx) ==
  CallInIdleCb(ctx) =>
    LET data == Head(idle[ctx])
        cs == calls'[data.client]
    IN  /\ Len(cs) = Len(calls[data.client]) + 1
        /\ cs[Len(cs)].call_type = data.call_type
        /\ cs[Len(cs)].connection = data.connection
        /\ cs[Len(cs)].name_owner = data.name_owner
        /\ cs[Len(cs)].seq = data.seq

\* C27: every delivered callback carries the connection and the name_owner the
\* watcher had when the delivery was decided, not those it has when the handler
\* is invoked: an Appeared always carries the owner that caused it and a non-null
\* connection, even if name_owner was cleared or replaced, or the connection
\* closed, between queuing and invocation.
C27_CarriesSnapshot ==
  /\ []AppearedCarriesOwner
  /\ [][/\ \A w \in Clients : IsLive(w) => CarriesValuesOfDecision(w)
        /\ \A ctx \in Contexts : InvokesWithSnapshot(ctx)]_vars

\* the connection closed while an Appeared was queued: the handler was invoked
\* with the connection and the owner, although the watcher has no connection any
\* more and its Vanished is queued
C27_Witness ==
  \E w \in Clients :
    /\ IsLive(w) /\ client[w].connection = NULL
    /\ Len(calls[w]) = 1
    /\ calls[w][1].call_type = CALL_TYPE_NAME_APPEARED
    /\ calls[w][1].via = "idle"
    /\ calls[w][1].connection = TheConnection
    /\ calls[w][1].name_owner \in Owners
    /\ \E d \in QueuedFor(w) :
         d.call_type = CALL_TYPE_NAME_VANISHED /\ d.connection = NULL

\* ---- C28
\* the asynchronous calls made for w whose completion callback has not run: the
\* one the bus has to answer and those whose reply waits to be dispatched
CallsInFlight(w) ==
  (IF pending[w] /= "none" THEN 1 ELSE 0)
  + Cardinality({i \in 1 .. Len(inbox[w]) : ~IsSignal(inbox[w][i])})

\* the references the claim accounts for: the registry's, one per call in
\* flight, one per queued idle source
ReferencesHeld(w) ==
  (IF map_id_to_client[client[w].id] = w THEN 1 ELSE 0)
  + CallsInFlight(w)
  + NumQueuedIn(idle, Contexts, w, CALL_TYPE_NAME_APPEARED)
  + NumQueuedIn(idle, Contexts, w, CALL_TYPE_NAME_VANISHED)

\* C28: the reference count of a watcher is one for its registry entry, plus one
\* per asynchronous bus call in flight, plus one per queued idle delivery; so
\* that it reaches zero, and the watcher is freed, once the watcher is removed
\* and the calls and deliveries have drained.
C28_RefCountAccounted ==
  \A w \in Clients : IsLive(w) => client[w].ref_count = ReferencesHeld(w)

\* a watcher that was removed from the registry and has no call in flight and no
\* delivery queued is still allocated: the reference invoke_get_name_owner took
\* for a call that was never made is never released
C28_LeakedReference ==
  \E w \in Clients :
    /\ IsLive(w) /\ client[w].cancelled
    /\ ReferencesHeld(w) = 0
    /\ client[w].ref_count = 1
    /\ client[w].auto_start /\ client[w].connection = NULL /\ closed

\* ---- C29
\* the owner w will know once it has handled the messages q in order: it knows
\* owner and is initialized or not (init) before the first of them
RECURSIVE OwnerAfter(_, _, _)
OwnerAfter(q, owner, init) ==
  IF q = <<>> THEN owner
  ELSE LET m == Head(q)
       IN  IF IsSignal(m)
           THEN OwnerAfter(Tail(q),
                           IF ~init \/ ~m.match \/ ~m.name_ok THEN owner
                           ELSE IF m.new_owner /= NoOwner THEN m.new_owner
                           ELSE IF m.old_owner /= NoOwner THEN NULL
                           ELSE owner,
                           init)
           ELSE IF m.method = "GetNameOwner"
           THEN OwnerAfter(Tail(q), IF m.result.ok THEN m.result.value ELSE owner, TRUE)
           ELSE OwnerAfter(Tail(q), owner, init)

\* w is not cancelled, its connection is open, and the bus has answered its
\* GetNameOwner: the watcher is initialized or will be by a reply it has received
HasAnswer(w) ==
  /\ IsLive(w) /\ ~client[w].cancelled
  /\ ~closed /\ client[w].connection /= NULL
  /\ \/ client[w].initialized
     \/ \E i \in 1 .. Len(inbox[w]) :
          ~IsSignal(inbox[w][i]) /\ inbox[w][i].method = "GetNameOwner"

BusOwnerOrNull == IF bus_owner = NoOwner THEN NULL ELSE bus_owner

\* the kind of the delivery decided last for w
LastDecided(w) == DecidedTypes(calls, idle, w, decided[w])

\* C29: the bus delivering replies and signals in the order it produced them, a
\* watcher that is not cancelled, has an open connection, is initialized (by the
\* reply to GetNameOwner) and has no undelivered bus message knows the bus's
\* current owner of the name, and the callback delivered last is Appeared
\* exactly when the name has an owner; a watcher that has messages to handle
\* will know the current owner when it has handled them, also when the owner
\* changed between the subscription and the reply to GetNameOwner.
C29_KnowsCurrentOwner ==
  \A w \in Clients :
    HasAnswer(w) =>
      /\ OwnerAfter(inbox[w], client[w].name_owner, client[w].initialized)
           = BusOwnerOrNull
      /\ (inbox[w] = <<>> /\ pending[w] = "none") =>
           /\ client[w].initialized
           /\ client[w].name_owner = BusOwnerOrNull
           /\ (client[w].previous_call = PREVIOUS_CALL_APPEARED)
                <=> (bus_owner /= NoOwner)
           /\ LastDecided(w) = {IF bus_owner /= NoOwner THEN CALL_TYPE_NAME_APPEARED
                                ELSE CALL_TYPE_NAME_VANISHED}

\* the owner changed after the watcher subscribed and before the bus answered
\* GetNameOwner: the signal is ahead of the reply, the watcher will leave it alone
\* and take the owner from the reply
C29_Witness ==
  \E w \in Clients :
    /\ HasAnswer(w) /\ ~client[w].initialized
    /\ Len(inbox[w]) = 2
    /\ IsSignal(inbox[w][1]) /\ inbox[w][1].new_owner = ":1.6"
    /\ inbox[w][2] = Reply("GetNameOwner", Result(TRUE, ":1.6"))
    /\ bus_owner = ":1.6"
    /\ OwnerAfter(inbox[w], client[w].name_owner, client[w].initialized) = ":1.6"

\* ---- C30
\* user_data_free_func has been invoked for w and the Client is freed
UserDataFreeFuncInvoked(w) == client[w].status = "freed"

InRegistry(w) == \E id \in Ids : map_id_to_client[id] = w

NumQueuedFor(w) ==
  NumQueuedIn(idle, Contexts, w, CALL_TYPE_NAME_APPEARED)
  + NumQueuedIn(idle, Contexts, w, CALL_TYPE_NAME_VANISHED)

\* nothing refers to the freed watcher: no registry entry, no bus call in flight,
\* no queued delivery, no message for its subscription, and the record holds no
\* subscription, no closed handler and no connection
NothingLeftOf(w) ==
  /\ ~InRegistry(w)
  /\ pending[w] = "none" /\ inbox[w] = <<>>
  /\ NumQueuedFor(w) = 0
  /\ client[w] = NewClient("freed")

\* the step drops the last reference: the count is 1 and one holder is left, the
\* registry, a bus call in flight or a queued delivery
DropsLastReference(w) ==
  /\ client[w].ref_count = 1
  /\ (IF InRegistry(w) THEN 1 ELSE 0) + CallsInFlight(w) + NumQueuedFor(w) = 1

\* C30: user_data_free_func is invoked at most once for a watcher, by the step
\* that drops the last reference, after which the watcher is not registered and
\* has no pending bus call and no queued delivery; neither handler is invoked for
\* the watcher afterwards, and its NameOwnerChanged subscription and closed
\* handler are gone.
C30_FreedOnceAtLastReference ==
  /\ [](\A w \in Clients : UserDataFreeFuncInvoked(w) => NothingLeftOf(w))
  /\ [][\A w \in Clients :
          /\ UserDataFreed(w) => DropsLastReference(w)
          /\ UserDataFreeFuncInvoked(w) =>
               /\ client'[w] = client[w]
               /\ calls'[w] = calls[w]]_vars

\* a watcher freed by the delivery that was still queued at g_bus_unwatch_name:
\* the handler was invoked with the watcher cancelled, and the idle source held
\* the last reference
C30_Witness ==
  \E w \in Clients :
    /\ UserDataFreeFuncInvoked(w)
    /\ calls[w] /= <<>>
    /\ calls[w][Len(calls[w])].via = "idle"
    /\ calls[w][Len(calls[w])].cancelled
    /\ closed

\* ---- C31
\* w is initialized and has its connection
InitializedWithConnection(w) ==
  IsLive(w) /\ client[w].initialized /\ client[w].connection /= NULL

\* no Appeared was delivered to w or is queued for it
NoAppearedDecided(w) ==
  /\ \A i \in 1 .. Len(calls[w]) : calls[w][i].call_type /= CALL_TYPE_NAME_APPEARED
  /\ NumQueuedIn(idle, Contexts, w, CALL_TYPE_NAME_APPEARED) = 0

\* C31: an initialized watcher that has its connection has name_owner set exactly
\* when previous_call is APPEARED and unset exactly when previous_call is
\* VANISHED, after any sequence of NameOwnerChanged signals, cancelled or not.
C31_OwnerIffAppeared ==
  \A w \in Clients :
    InitializedWithConnection(w) =>
      /\ client[w].previous_call
           \in {PREVIOUS_CALL_APPEARED, PREVIOUS_CALL_VANISHED}
      /\ (client[w].name_owner /= NULL)
           <=> (client[w].previous_call = PREVIOUS_CALL_APPEARED)
      /\ (client[w].name_owner = NULL)
           <=> (client[w].previous_call = PREVIOUS_CALL_VANISHED)

\* a cancelled watcher was told, by a signal the bus daemon's owner changes do
\* not explain, that the name got an owner: name_owner is set and previous_call
\* is APPEARED although no Appeared was delivered or queued
C31_Witness ==
  \E w \in Clients :
    /\ InitializedWithConnection(w) /\ client[w].cancelled
    /\ client[w].name_owner /= NULL
    /\ client[w].previous_call = PREVIOUS_CALL_APPEARED
    /\ NoAppearedDecided(w)
    /\ ~closed /\ inbox[w] = <<>> /\ client[w].name_owner /= bus_owner

\* without the connection: on_connection_disconnected reports Vanished and
\* leaves name_owner as it is
C31_OwnerIffAppearedAlways ==
  \A w \in Clients :
    (IsLive(w) /\ client[w].initialized) =>
      ((client[w].name_owner /= NULL)
         <=> (client[w].previous_call = PREVIOUS_CALL_APPEARED))
====
